---- MODULE Spec2Model ----
(***************************************************************************)
(* Task Thrower: the task ordering and lifecycle engine.                   *)
(*                                                                         *)
(* The repository (Firestore collection "tasks") is a map from document    *)
(* id to document; a document is a function from field names to values.    *)
(* The page component keeps a snapshot of the repository (allTasks) and    *)
(* derives the Today / Future / Removed lists from it and the reference    *)
(* date (baseDate).  Every async handler is split at its awaits: the       *)
(* synchronous prefix, each batch commit, and the re-fetch that follows.   *)
(*                                                                         *)
(* JavaScript strings that the code inspects character by character (ISO   *)
(* dates, titles) are sequences of UTF-16 code units.                      *)
(***************************************************************************)
EXTENDS Integers, Sequences, FiniteSets, TLC

(***************************************************************************)
(* Bounds of the model.                                                    *)
(***************************************************************************)
\* number of handler invocations that call the repository, per behaviour
MaxOps == 1
\* number of other user events (tab, date, checkbox, sign-in/out), per behaviour
MaxUi == 3
\* number of operations of one client that may be in flight together
MaxInflight == 2

(***************************************************************************)
(* Strings.                                                                *)
(***************************************************************************)
Hyphen == 45
Zero == 48
Space == 32

EmptyStr == << >>

IsDigit(c) == c \in Zero..(Zero + 9)

RECURSIVE Digits(_)
\* String(n) for a non-negative integer
Digits(n) == IF n < 10 THEN << Zero + n >> ELSE Digits(n \div 10) \o << Zero + (n % 10) >>

\* dateOnly.ts pad2: String(n).padStart(2, "0")
pad2(n) == LET s == Digits(n) IN IF Len(s) < 2 THEN << Zero >> \o s ELSE s

RECURSIVE NumberOf(_)
\* Number("dddd") for a string of decimal digits
NumberOf(s) ==
    IF Len(s) = 0 THEN 0
    ELSE 10 * NumberOf(SubSeq(s, 1, Len(s) - 1)) + (s[Len(s)] - Zero)

RECURSIVE StrLess(_, _)
\* a < b on JavaScript strings: lexicographic on code units
StrLess(a, b) ==
    IF Len(b) = 0 THEN FALSE
    ELSE IF Len(a) = 0 THEN TRUE
    ELSE IF a[1] # b[1] THEN a[1] < b[1]
    ELSE StrLess(Tail(a), Tail(b))

StrLE(a, b) == a = b \/ StrLess(a, b)
StrGT(a, b) == StrLess(b, a)

RECURSIVE TrimLeft(_)
TrimLeft(s) == IF Len(s) > 0 /\ s[1] = Space THEN TrimLeft(Tail(s)) ELSE s

RECURSIVE TrimRight(_)
TrimRight(s) ==
    IF Len(s) > 0 /\ s[Len(s)] = Space THEN TrimRight(SubSeq(s, 1, Len(s) - 1)) ELSE s

\* taskStore.ts str(v) on a string: String(v).trim()
str(s) == TrimRight(TrimLeft(s))

(***************************************************************************)
(* DateOnly.                                                               *)
(***************************************************************************)
isISODate(iso) ==
    /\ Len(iso) = 10
    /\ iso[5] = Hyphen
    /\ iso[8] = Hyphen
    /\ \A i \in {1, 2, 3, 4, 6, 7, 9, 10} : IsDigit(iso[i])

parseISO(iso) ==
    [y |-> NumberOf(SubSeq(iso, 1, 4)),
     m |-> NumberOf(SubSeq(iso, 6, 7)),
     d |-> NumberOf(SubSeq(iso, 9, 10))]

toISO(v) == Digits(v.y) \o << Hyphen >> \o pad2(v.m) \o << Hyphen >> \o pad2(v.d)

\* days since 1970-01-01 of the first day of month m (1..12) of year y
DaysFromCivil(y, m) ==
    LET yy  == IF m <= 2 THEN y - 1 ELSE y
        era == yy \div 400
        yoe == yy - era * 400
        mp  == IF m > 2 THEN m - 3 ELSE m + 9
        doy == (153 * mp + 2) \div 5
        doe == yoe * 365 + yoe \div 4 - yoe \div 100 + doy
    IN  era * 146097 + doe - 719468

\* Date.UTC(y, m - 1, d) in days: a year 0..99 means 1900 + y, and a month or
\* day out of range carries over
DateUTC(y, m, d) ==
    LET fy     == IF y \in 0..99 THEN 1900 + y ELSE y
        months == fy * 12 + (m - 1)
    IN  DaysFromCivil(months \div 12, (months % 12) + 1) + (d - 1)

\* getUTCFullYear / getUTCMonth + 1 / getUTCDate of a day number
CivilFromDays(z) ==
    LET zz  == z + 719468
        era == zz \div 146097
        doe == zz - era * 146097
        yoe == (doe - doe \div 1460 + doe \div 36524 - doe \div 146096) \div 365
        doy == doe - (365 * yoe + yoe \div 4 - yoe \div 100)
        mp  == (5 * doy + 2) \div 153
        mm  == IF mp < 10 THEN mp + 3 ELSE mp - 9
    IN  [y |-> yoe + era * 400 + (IF mm <= 2 THEN 1 ELSE 0),
         m |-> mm,
         d |-> doy - (153 * mp + 2) \div 5 + 1]

\* addDaysISO throws when the base is not in the 4-2-2 digit pattern
addDaysThrows(baseISO) == ~isISODate(baseISO)

addDaysISO(baseISO, days) ==
    LET p == parseISO(baseISO)
    IN  toISO(CivilFromDays(DateUTC(p.y, p.m, p.d) + days))

(***************************************************************************)
(* Task repository (taskStore.ts, the variant with sortOrder and           *)
(* per-item reschedule).                                                   *)
(***************************************************************************)
BatchLimit == 450
SorterStep == 1000
MinSortOrder == 1
MaxSortOrder == 24

\* "9999-12-31", the due date listTasks gives a record that has none
SentinelDue == << 57, 57, 57, 57, Hyphen, 49, 50, Hyphen, 51, 49 >>

Min2(a, b) == IF a < b THEN a ELSE b
Max2(a, b) == IF a > b THEN a ELSE b

MaxOf(S) == IF S = {} THEN 0 ELSE Max2(0, CHOOSE m \in S : \A x \in S : x <= m)

\* data?.f of a stored document, with what num / str / bool make of undefined
Field(doc, f, undef) == IF f \in DOMAIN doc THEN doc[f] ELSE undef

\* x || y on numbers
OrElse(x, y) == IF x = 0 THEN y ELSE x

\* the clamp of the repository without its upper end
storeClampLow(v) == Max2(MinSortOrder, OrElse(v, MaxSortOrder))

\* Math.min(24, Math.max(1, Math.trunc(v || 24)))
storeClamp(v) == Min2(MaxSortOrder, Max2(MinSortOrder, OrElse(v, MaxSortOrder)))

\* uniq that only drops the empty ids
uniqNonEmpty(ids) == SelectSeq(ids, LAMBDA x : x # 0)

\* uniq: distinct non-empty ids, first occurrence kept (the empty id is 0)
uniq(ids) ==
    LET first == SelectSeq([k \in 1..Len(ids) |-> k],
                           LAMBDA k : ids[k] # 0 /\ \A j \in 1..(k - 1) : ids[j] # ids[k])
    IN  [k \in 1..Len(first) |-> ids[first[k]]]

NumChunks(arr, size) == (Len(arr) + size - 1) \div size

\* chunk with parts one element longer than asked
chunkOver(arr, size) ==
    [k \in 1..NumChunks(arr, size + 1) |->
        SubSeq(arr, (k - 1) * (size + 1) + 1, Min2(k * (size + 1), Len(arr)))]

\* chunk(arr, size)[k]
chunk(arr, size) ==
    [k \in 1..NumChunks(arr, size) |->
        SubSeq(arr, (k - 1) * size + 1, Min2(k * size, Len(arr)))]

\* createTask that files every task in the last band
createTaskDocLastBand(uid, title, dueDate, sortOrder, sorter, now) ==
    [schemaVersion |-> 1,
     uid           |-> str(uid),
     title         |-> str(title),
     dueDate       |-> str(dueDate),
     removed       |-> FALSE,
     doneCount     |-> 0,
     lastDoneDate  |-> EmptyStr,
     throwCount    |-> 0,
     sortOrder     |-> MaxSortOrder,
     sorter        |-> OrElse(sorter, now),
     createdAtMs   |-> now,
     updatedAtMs   |-> now]

\* the document createTask adds
createTaskDoc(uid, title, dueDate, sortOrder, sorter, now) ==
    [schemaVersion |-> 1,
     uid           |-> str(uid),
     title         |-> str(title),
     dueDate       |-> str(dueDate),
     removed       |-> FALSE,
     doneCount     |-> 0,
     lastDoneDate  |-> EmptyStr,
     throwCount    |-> 0,
     sortOrder     |-> storeClamp(sortOrder),
     sorter        |-> OrElse(sorter, now),
     createdAtMs   |-> now,
     updatedAtMs   |-> now]

\* createTask without its checks
createTaskThrowsNever(uid, title, dueDate) == FALSE

\* createTask rejects an empty uid, title or dueDate before addDoc
createTaskThrows(uid, title, dueDate) ==
    str(uid) = EmptyStr \/ str(title) = EmptyStr \/ str(dueDate) = EmptyStr

\* one element of listTasks' result: the stored document normalised on read
normalize(id, data) ==
    LET createdAtMs == Field(data, "createdAtMs", 0)
        updatedAtMs == OrElse(Field(data, "updatedAtMs", 0), createdAtMs)
        due         == str(Field(data, "dueDate", EmptyStr))
        rawSorter   == Field(data, "sorter", 0)
        sorter      == IF rawSorter <= 0 THEN OrElse(createdAtMs, updatedAtMs) ELSE rawSorter
        rawSO       == Field(data, "sortOrder", 0)
        derived     == (sorter + 500) \div 1000
        sortOrder   == IF rawSO < MinSortOrder \/ rawSO > MaxSortOrder
                       THEN storeClamp(derived) ELSE rawSO
    IN  [id           |-> id,
         uid          |-> str(Field(data, "uid", EmptyStr)),
         title        |-> str(Field(data, "title", EmptyStr)),
         dueDate      |-> IF due = EmptyStr THEN SentinelDue ELSE due,
         removed      |-> Field(data, "removed", FALSE),
         doneCount    |-> Max2(0, Field(data, "doneCount", 0)),
         lastDoneDate |-> str(Field(data, "lastDoneDate", EmptyStr)),
         throwCount   |-> Max2(0, Field(data, "throwCount", 0)),
         sortOrder    |-> sortOrder,
         sorter       |-> sorter,
         createdAtMs  |-> createdAtMs,
         updatedAtMs  |-> updatedAtMs]

\* listTasks(uid): the documents of one owner, in document id order
listTasks(store, uid) ==
    LET ids == SelectSeq([i \in 1..Len(store) |-> i],
                         LAMBDA i : Field(store[i], "uid", EmptyStr) = uid)
    IN  [k \in 1..Len(ids) |-> normalize(ids[k], store[ids[k]])]

\* an update that stores the amount of an increment in place of the sum
applyUpdateSet(doc, u, now) ==
    [f \in DOMAIN doc \cup DOMAIN u.set \cup DOMAIN u.inc \cup {"updatedAtMs"} |->
        IF f = "updatedAtMs" THEN now
        ELSE IF f \in DOMAIN u.inc THEN u.inc[f]
        ELSE IF f \in DOMAIN u.set THEN u.set[f]
        ELSE doc[f]]

\* an update that leaves updatedAtMs as it is stored
applyUpdateUnstamped(doc, u, now) ==
    [f \in DOMAIN doc \cup DOMAIN u.set \cup DOMAIN u.inc \cup {"updatedAtMs"} |->
        IF f = "updatedAtMs" THEN Field(doc, f, 0)
        ELSE IF f \in DOMAIN u.inc THEN Field(doc, f, 0) + u.inc[f]
        ELSE IF f \in DOMAIN u.set THEN u.set[f]
        ELSE doc[f]]

\* b.update(ref, {...u.data, updatedAtMs: now}) on one document: a field-level
\* merge; increment(n) adds to the stored value
applyUpdate(doc, u, now) ==
    [f \in DOMAIN doc \cup DOMAIN u.set \cup DOMAIN u.inc \cup {"updatedAtMs"} |->
        IF f = "updatedAtMs" THEN now
        ELSE IF f \in DOMAIN u.inc THEN Field(doc, f, 0) + u.inc[f]
        ELSE IF f \in DOMAIN u.set THEN u.set[f]
        ELSE doc[f]]

RECURSIVE applyAll(_, _, _)
\* the updates a batch holds for one document, applied in order
applyAll(doc, us, now) ==
    IF Len(us) = 0 THEN doc ELSE applyAll(applyUpdate(doc, us[1], now), Tail(us), now)

\* a commit that drops the documents flagged removed
commitPartPurge(store, part, now) ==
    SelectSeq([id \in 1..Len(store) |->
                  applyAll(store[id], SelectSeq(part, LAMBDA u : u.id = id), now)],
              LAMBDA d : ~Field(d, "removed", FALSE))

\* b.commit() of one chunk: all of its updates, in order, as one atomic write
commitPart(store, part, now) ==
    [id \in 1..Len(store) |->
        applyAll(store[id], SelectSeq(part, LAMBDA u : u.id = id), now)]

\* a repository that accepts an update only of records never updated before
partCommittableUntouched(store, part) ==
    {k \in 1..Len(part) :
        \/ part[k].id \notin DOMAIN store
        \/ store[part[k].id].updatedAtMs # store[part[k].id].createdAtMs} = {}

\* an update of a document that does not exist makes the batch fail
partCommittable(store, part) == {k \in 1..Len(part) : part[k].id \notin DOMAIN store} = {}

NoFields == [f \in {} |-> 0]

Update(id, set, inc) == [id |-> id, set |-> set, inc |-> inc]

\* an update that never touches throwCount
ThrowIncNone(throwDelta) == NoFields

\* throwCount: increment(throwDelta), only when throwDelta is not 0
ThrowInc(throwDelta) == IF throwDelta = 0 THEN NoFields ELSE [throwCount |-> throwDelta]

\* completeTasks that counts every completion as a throw
completeTasksRowsThrown(taskIds, lastDoneDate, doneDelta, throwDelta) ==
    LET ids == uniq(taskIds)
    IN  [k \in 1..Len(ids) |->
            Update(ids[k], [lastDoneDate |-> lastDoneDate],
                   [doneCount |-> doneDelta, throwCount |-> 1])]

completeTasksRows(taskIds, lastDoneDate, doneDelta, throwDelta) ==
    LET ids == uniq(taskIds)
    IN  [k \in 1..Len(ids) |->
            Update(ids[k], [lastDoneDate |-> lastDoneDate],
                   [doneCount |-> doneDelta] @@ ThrowInc(throwDelta))]

rescheduleTasksRows(taskIds, dueDate, throwDelta) ==
    LET ids == uniq(taskIds)
    IN  [k \in 1..Len(ids) |-> Update(ids[k], [dueDate |-> dueDate], ThrowInc(throwDelta))]

\* the entries of the Map built from items: one per id, in first-insertion
\* order, holding the last due date given for the id
lastWins(items) ==
    LET set   == SelectSeq(items, LAMBDA it : it.id # 0 /\ str(it.dueDate) # EmptyStr)
        first == SelectSeq([k \in 1..Len(set) |-> k],
                           LAMBDA k : \A j \in 1..(k - 1) : set[j].id # set[k].id)
        last(id) == CHOOSE k \in 1..Len(set) :
                        set[k].id = id /\ \A j \in (k + 1)..Len(set) : set[j].id # id
    IN  [k \in 1..Len(first) |->
            [id |-> set[first[k]].id, dueDate |-> str(set[last(set[first[k]].id)].dueDate)]]

rescheduleTasksIndividuallyRows(items, throwDelta) ==
    LET rows == lastWins(items)
    IN  [k \in 1..Len(rows) |->
            Update(rows[k].id, [dueDate |-> rows[k].dueDate], ThrowInc(throwDelta))]

\* removeTasks that counts every removal as a throw
removeTasksRowsThrown(taskIds, removed, throwDelta) ==
    LET ids == uniq(taskIds)
    IN  [k \in 1..Len(ids) |-> Update(ids[k], [removed |-> removed], [throwCount |-> 1])]

removeTasksRows(taskIds, removed, throwDelta) ==
    LET ids == uniq(taskIds)
    IN  [k \in 1..Len(ids) |-> Update(ids[k], [removed |-> removed], ThrowInc(throwDelta))]

updateOrderingRows(items) ==
    LET rows == SelectSeq(items, LAMBDA x : x.id # 0)
    IN  [k \in 1..Len(rows) |->
            Update(rows[k].id,
                   [sorter |-> rows[k].sorter, sortOrder |-> storeClamp(rows[k].sortOrder)],
                   NoFields)]

updateTaskRows(id, data) == IF id = 0 THEN << >> ELSE << Update(id, data, NoFields) >>

(***************************************************************************)
(* Page component (app/page.tsx): derived lists and the ordering engine.   *)
(***************************************************************************)
\* ThrowAction
ThrowActions ==
    {"TOMORROW", "DAY_AFTER", "WEEK", "MONTH", "MONTH3", "YEAR", "SWIPE", "DONE", "REMOVE"}

\* actionToDays with calendar-length months
actionToDaysCalendar(a) ==
    CASE a = "TOMORROW"  -> 1
      [] a = "DAY_AFTER" -> 2
      [] a = "WEEK"      -> 7
      [] a = "MONTH"     -> 31
      [] a = "MONTH3"    -> 92
      [] a = "YEAR"      -> 365
      [] OTHER           -> 0

\* actionToDays; 0 stands for null
actionToDays(a) ==
    CASE a = "TOMORROW"  -> 1
      [] a = "DAY_AFTER" -> 2
      [] a = "WEEK"      -> 7
      [] a = "MONTH"     -> 30
      [] a = "MONTH3"    -> 90
      [] a = "YEAR"      -> 365
      [] OTHER           -> 0

\* a band taken as it is given
clampSortOrderNone(v) == v

\* clampSortOrder on an integer
clampSortOrder(v) ==
    IF v < MinSortOrder THEN MinSortOrder
    ELSE IF v > MaxSortOrder THEN MaxSortOrder
    ELSE v

\* Array.prototype.sort(cmp) is SortSeq with the order cmp(a, b) < 0: both are
\* stable, elements the comparator does not order keep their relative order
activeTasks(all) == SelectSeq(all, LAMBDA t : ~t.removed)

\* the comparator of todayTasks: sortOrder, then sorter, then createdAtMs
todayLess(a, b) ==
    LET ao == clampSortOrder(a.sortOrder)
        bo == clampSortOrder(b.sortOrder)
    IN  IF ao # bo THEN ao < bo
        ELSE IF a.sorter # b.sorter THEN a.sorter < b.sorter
        ELSE a.createdAtMs < b.createdAtMs

\* todayTasks with the boundary date left out
todayTasksStrict(all, base) ==
    SortSeq(SelectSeq(activeTasks(all), LAMBDA t : StrLess(t.dueDate, base)), todayLess)

\* todayTasks that keeps one task per (sortOrder, sorter), as a list keyed
\* by them would
todayTasksKeyed(all, base) ==
    LET due == SelectSeq(activeTasks(all), LAMBDA t : StrLE(t.dueDate, base))
        first == SelectSeq([k \in 1..Len(due) |-> k],
                           LAMBDA k : \A j \in 1..(k - 1) :
                               \/ due[j].sortOrder # due[k].sortOrder
                               \/ due[j].sorter # due[k].sorter)
    IN  SortSeq([k \in 1..Len(first) |-> due[first[k]]], todayLess)

todayTasks(all, base) ==
    SortSeq(SelectSeq(activeTasks(all), LAMBDA t : StrLE(t.dueDate, base)), todayLess)

\* the comparator of futureTasks: dueDate, then createdAtMs
futureLess(a, b) ==
    IF a.dueDate # b.dueDate THEN StrLess(a.dueDate, b.dueDate)
    ELSE a.createdAtMs < b.createdAtMs

\* futureTasks that also takes the tasks due on the reference date
futureTasksInclusive(all, base) ==
    SortSeq(SelectSeq(activeTasks(all), LAMBDA t : ~StrLess(t.dueDate, base)), futureLess)

futureTasks(all, base) ==
    SortSeq(SelectSeq(activeTasks(all), LAMBDA t : StrGT(t.dueDate, base)), futureLess)

\* the comparator of removedTasks: dueDate descending, then updatedAtMs descending
removedLess(a, b) ==
    IF a.dueDate # b.dueDate THEN StrLess(b.dueDate, a.dueDate)
    ELSE b.updatedAtMs < a.updatedAtMs

removedTasks(all) == SortSeq(SelectSeq(all, LAMBDA t : t.removed), removedLess)

IdsOf(list) == {list[k].id : k \in 1..Len(list)}

\* ids.indexOf(id), 1-based; 0 when absent
IndexOf(list, id) ==
    IF id \in IdsOf(list) THEN CHOOSE k \in 1..Len(list) : list[k].id = id ELSE 0

TaskOf(list, id) == list[IndexOf(list, id)]

\* a selection that is never pruned
pruneSelectedKeep(sel, today) == sel

\* the selection pruning effect: keep the keys that are ticked and in Today
pruneSelected(sel, today) ==
    SelectSeq(sel, LAMBDA e : e.on /\ e.id \in IdsOf(today))

\* selectedIds: the ticked keys, in key order
selectedIds(sel) ==
    LET on == SelectSeq(sel, LAMBDA e : e.on) IN [k \in 1..Len(on) |-> on[k].id]

\* toggle(id): {...prev, [id]: !prev[id]}
toggle(sel, id) ==
    IF \E k \in 1..Len(sel) : sel[k].id = id
    THEN [k \in 1..Len(sel) |-> IF sel[k].id = id THEN [id |-> id, on |-> ~sel[k].on] ELSE sel[k]]
    ELSE Append(sel, [id |-> id, on |-> TRUE])

\* nextSorterForSortOrder taking the maximum over every band
nextSorterAnyBand(today, so) ==
    MaxOf({today[k].sorter : k \in 1..Len(today)}) + SorterStep

\* nextSorterForSortOrder(so) over the Today list of the current render
nextSorterForSortOrder(today, so) ==
    LET target == clampSortOrder(so)
        band   == {k \in 1..Len(today) : clampSortOrder(today[k].sortOrder) = target}
    IN  MaxOf({today[k].sorter : k \in band}) + SorterStep

\* arrayMove(array, from, to) of @dnd-kit/sortable, 1-based
arrayMove(arr, from, to) ==
    LET without == SubSeq(arr, 1, from - 1) \o SubSeq(arr, from + 1, Len(arr))
    IN  SubSeq(without, 1, to - 1) \o << arr[from] >> \o SubSeq(without, to, Len(without))

\* dragUpdates that renumbers only the moved task
dragUpdatesMovedOnly(today, oldIndex, newIndex) ==
    LET moved == arrayMove(today, oldIndex, newIndex)
    IN  [i \in 1..Len(moved) |->
            [id        |-> moved[i].id,
             sorter    |-> IF i = newIndex THEN i * SorterStep ELSE moved[i].sorter,
             sortOrder |-> IF i # newIndex THEN clampSortOrder(moved[i].sortOrder)
                           ELSE IF newIndex > 1 THEN clampSortOrder(moved[newIndex - 1].sortOrder)
                           ELSE clampSortOrder(moved[newIndex + 1].sortOrder)]]

\* dragUpdates in which the moved task inherits from the next neighbour first
dragUpdatesNextFirst(today, oldIndex, newIndex) ==
    LET moved == arrayMove(today, oldIndex, newIndex)
    IN  [i \in 1..Len(moved) |->
            [id        |-> moved[i].id,
             sorter    |-> i * SorterStep,
             sortOrder |-> IF i # newIndex THEN clampSortOrder(moved[i].sortOrder)
                           ELSE IF newIndex < Len(moved)
                           THEN clampSortOrder(moved[newIndex + 1].sortOrder)
                           ELSE clampSortOrder(moved[newIndex - 1].sortOrder)]]

\* a drag that renumbers the sorters and leaves every sortOrder as it is
dragUpdatesKeepBand(today, oldIndex, newIndex) ==
    LET moved == arrayMove(today, oldIndex, newIndex)
    IN  [i \in 1..Len(moved) |->
            [id        |-> moved[i].id,
             sorter    |-> i * SorterStep,
             sortOrder |-> clampSortOrder(moved[i].sortOrder)]]

\* the updates onDragEnd computes for a drag of the item at oldIndex onto the
\* item at newIndex (1-based)
dragUpdates(today, oldIndex, newIndex) ==
    LET moved       == arrayMove(today, oldIndex, newIndex)
        movedTask   == moved[newIndex]
        inheritedSO == IF newIndex > 1 THEN clampSortOrder(moved[newIndex - 1].sortOrder)
                       ELSE IF newIndex < Len(moved)
                       THEN clampSortOrder(moved[newIndex + 1].sortOrder)
                       ELSE clampSortOrder(movedTask.sortOrder)
    IN  [i \in 1..Len(moved) |->
            [id        |-> moved[i].id,
             sorter    |-> i * SorterStep,
             sortOrder |-> IF moved[i].id = movedTask.id THEN inheritedSO
                           ELSE clampSortOrder(moved[i].sortOrder)]]

\* a drag without the optimistic local update
applyLocalNone(all, updates) == all

\* the optimistic local update of onDragEnd
applyLocal(all, updates) ==
    [k \in 1..Len(all) |->
        IF \E i \in 1..Len(updates) : updates[i].id = all[k].id
        THEN LET v == updates[CHOOSE i \in 1..Len(updates) : updates[i].id = all[k].id]
             IN  [all[k] EXCEPT !.sorter = v.sorter, !.sortOrder = v.sortOrder]
        ELSE all[k]]

\* swipeItems that numbers the tasks in the order they were ticked
swipeItemsTicked(today, sel, base) ==
    LET ids == selectedIds(sel)
    IN  [i \in 1..Len(ids) |-> [id |-> ids[i], dueDate |-> addDaysISO(base, i + 3)]]

\* the items of the SWIPE branch of onThrow: the ticked tasks in screen order,
\* the i-th (from 0) due (i + 1) + 3 days after the reference date
swipeItems(today, sel, base) ==
    LET checkedInOrder ==
            SelectSeq(today, LAMBDA t : \E k \in 1..Len(sel) : sel[k].id = t.id /\ sel[k].on)
    IN  [i \in 1..Len(checkedInOrder) |->
            [id |-> checkedInOrder[i].id, dueDate |-> addDaysISO(base, i + 3)]]

(***************************************************************************)
(* State.                                                                  *)
(***************************************************************************)
Clients == {"c1", "c2"}

VARIABLES
    repo,       \* the "tasks" collection: document id -> document
    clock,      \* Date.now()
    opsLeft,    \* handler invocations the bound still allows
    uiLeft,     \* other user events the bound still allows
    user,       \* per client: signed in
    baseDate,   \* per client: the reference date
    tab,        \* per client: the tab shown
    allTasks,   \* per client: the snapshot of the repository
    selected,   \* per client: the selection, keys in insertion order
    busy,       \* per client: the busy flag
    msg,        \* per client: the toast shown
    inflight    \* per client: the handler invocations awaiting the repository

vars == << repo, clock, opsLeft, uiLeft, user, baseDate, tab, allTasks, selected, busy, msg, inflight >>

Owner == << 117 >>

\* "2024-02-28" and the day after it
RefA == << 50, 48, 50, 52, Hyphen, 48, 50, Hyphen, 50, 56 >>
RefB == addDaysISO(RefA, 1)

\* the last date the date input can hold that has a four-digit year
RefLast == << 57, 57, 57, 57, Hyphen, 49, 50, Hyphen, 51, 49 >>

\* what the date input can hold: a date, or nothing when it is cleared
BaseDates == {RefA, RefB, RefLast, EmptyStr}

\* what the title input can hold
Titles == {<< Space >>, << 97, Space >>}

\* the bands chosen in the selectors
BandChoices == {1, 3, 24}

SeedDoc(due, band, sorter, removed, created) ==
    [createTaskDoc(Owner, << 97 >>, due, band, sorter, created) EXCEPT !.removed = removed]

\* repositories earlier sessions leave behind
SeedRepos ==
    { << >>,
      \* bands [1,1,3], sorters [1000,2000,1000], all due on RefA
      << SeedDoc(RefA, 1, 1000, FALSE, 1), SeedDoc(RefA, 1, 2000, FALSE, 2),
         SeedDoc(RefA, 3, 1000, FALSE, 3) >>,
      \* one band: a task due, a task due the day after, a removed task
      << SeedDoc(RefA, 3, 1000, FALSE, 1), SeedDoc(RefB, 3, 2000, FALSE, 2),
         SeedDoc(RefA, 3, 3000, TRUE, 3) >>,
      \* two tasks with the same keys, as two clients adding at once leave them
      << SeedDoc(RefA, 1, 1000, FALSE, 1), SeedDoc(RefA, 1, 1000, FALSE, 2),
         SeedDoc(RefB, 24, 1000, FALSE, 3) >>,
      \* tasks of an older build, whose sorter is the creation time
      \* the first of them completed twice, last on RefB, and thrown five times
      << [SeedDoc(RefA, 24, 2500, FALSE, 1) EXCEPT
              !.doneCount = 2, !.throwCount = 5, !.lastDoneDate = RefB],
         SeedDoc(RefA, 3, 7, FALSE, 2),
         SeedDoc(RefA, 24, 999, FALSE, 3) >> }

\* the page after it is mounted and the session restored: signed in, the
\* snapshot fetched, nothing selected, nothing in flight
InitFrom(store, o, u) ==
    /\ repo = store
    /\ clock = Len(store)
    /\ opsLeft = o
    /\ uiLeft = u
    /\ user = [c \in Clients |-> TRUE]
    /\ baseDate = [c \in Clients |-> RefA]
    /\ tab = [c \in Clients |-> "TODAY"]
    /\ allTasks = [c \in Clients |-> listTasks(store, Owner)]
    /\ selected = [c \in Clients |-> << >>]
    /\ busy = [c \in Clients |-> FALSE]
    /\ msg = [c \in Clients |-> "none"]
    /\ inflight = [c \in Clients |-> << >>]

Init == \E store \in SeedRepos : InitFrom(store, MaxOps, MaxUi)

Today(c) == todayTasks(allTasks[c], baseDate[c])
Future(c) == futureTasks(allTasks[c], baseDate[c])
Removed(c) == removedTasks(allTasks[c])

\* addDoc assigns an id no document has
NewId == Cardinality(DOMAIN repo) + 1

\* a handler invocation, counted against the bound of the model
OpEvent == opsLeft > 0 /\ opsLeft' = opsLeft - 1 /\ UNCHANGED uiLeft

\* another user event, counted against the bound of the model
UiEvent == uiLeft > 0 /\ uiLeft' = uiLeft - 1 /\ UNCHANGED opsLeft

RemoveAt(s, i) == SubSeq(s, 1, i - 1) \o SubSeq(s, i + 1, Len(s))

(***************************************************************************)
(* UI events that do not reach the repository.                             *)
(***************************************************************************)
\* onAuthStateChanged: sign-in re-fetches, sign-out empties the snapshot; both
\* clear the selection.  The sign-out button is disabled while busy.
AuthChanged(c) ==
    /\ IF user[c]
       THEN /\ ~busy[c]
            /\ user' = [user EXCEPT ![c] = FALSE]
            /\ allTasks' = [allTasks EXCEPT ![c] = << >>]
       ELSE /\ user' = [user EXCEPT ![c] = TRUE]
            /\ \E ok \in BOOLEAN :
                  allTasks' = [allTasks EXCEPT ![c] = IF ok THEN listTasks(repo, Owner) ELSE @]
    /\ selected' = [selected EXCEPT ![c] = << >>]
    /\ UNCHANGED << repo, clock, baseDate, tab, busy, msg, inflight >>
    /\ UiEvent

\* the date input without the effect on baseDate
SetBaseDateKeep(c, d) ==
    /\ ~busy[c]
    /\ d # baseDate[c]
    /\ baseDate' = [baseDate EXCEPT ![c] = d]
    /\ UNCHANGED << repo, clock, user, tab, allTasks, selected, busy, msg, inflight >>
    /\ UiEvent

\* the date input: setBaseDate, then the effect that clears the selection
SetBaseDate(c, d) ==
    /\ ~busy[c]
    /\ d # baseDate[c]
    /\ baseDate' = [baseDate EXCEPT ![c] = d]
    /\ selected' = [selected EXCEPT ![c] = << >>]
    /\ UNCHANGED << repo, clock, user, tab, allTasks, busy, msg, inflight >>
    /\ UiEvent

\* a tab button: setTab
SetTab(c, k) ==
    /\ k # tab[c]
    /\ tab' = [tab EXCEPT ![c] = k]
    /\ UNCHANGED << repo, clock, user, baseDate, allTasks, selected, busy, msg, inflight >>
    /\ UiEvent

\* the checkbox of a Today row
Toggle(c, id) ==
    /\ tab[c] = "TODAY"
    /\ ~busy[c]
    /\ id \in IdsOf(Today(c))
    /\ selected' = [selected EXCEPT ![c] = toggle(@, id)]
    /\ UNCHANGED << repo, clock, user, baseDate, tab, allTasks, busy, msg, inflight >>
    /\ UiEvent

\* the timer of toast
ToastExpire(c) ==
    /\ msg[c] # "none"
    /\ msg' = [msg EXCEPT ![c] = "none"]
    /\ UNCHANGED << repo, clock, opsLeft, uiLeft, user, baseDate, tab, allTasks, selected, busy, inflight >>

(***************************************************************************)
(* Handlers: the synchronous part up to the first await.                   *)
(***************************************************************************)
Op(h, kind, rows, doc, now) ==
    [h |-> h, kind |-> kind, rows |-> rows, doc |-> doc, now |-> now,
     done |-> 0, phase |-> "write"]

\* setBusy(true), then the call of the store function
Start(c, h, kind, rows, doc) ==
    /\ Len(inflight[c]) < MaxInflight
    /\ OpEvent
    /\ clock' = clock + 1
    /\ busy' = [busy EXCEPT ![c] = TRUE]
    /\ inflight' = [inflight EXCEPT ![c] = Append(@, Op(h, kind, rows, doc, clock + 1))]

\* an exception before any write: catch (toast), finally (setBusy(false))
FailSync(c) ==
    /\ msg' = [msg EXCEPT ![c] = "error"]
    /\ busy' = [busy EXCEPT ![c] = FALSE]
    /\ UNCHANGED << repo, clock, user, baseDate, tab, allTasks, selected, inflight >>
    /\ OpEvent

onAdd(c, title, sortOrderNew) ==
    /\ user[c]
    /\ ~busy[c]
    /\ IF str(title) = EmptyStr
       THEN UNCHANGED vars
       ELSE LET so     == clampSortOrder(sortOrderNew)
                sorter == nextSorterForSortOrder(Today(c), so)
            IN  IF createTaskThrows(Owner, str(title), baseDate[c])
                THEN FailSync(c)
                ELSE /\ Start(c, "onAdd", "create", << >>,
                              createTaskDoc(Owner, str(title), baseDate[c], so, sorter, clock + 1))
                     /\ UNCHANGED << repo, user, baseDate, tab, allTasks, selected, msg >>

onChangeSortOrder(c, id, newSO) ==
    /\ user[c]
    /\ tab[c] = "TODAY"
    /\ ~busy[c]
    /\ id \in IdsOf(Today(c))
    /\ LET so     == clampSortOrder(newSO)
           sorter == nextSorterForSortOrder(Today(c), so)
       IN  Start(c, "onChangeSortOrder", "batch",
                 updateTaskRows(id, [sortOrder |-> so, sorter |-> sorter]), NoFields)
    /\ UNCHANGED << repo, user, baseDate, tab, allTasks, selected, msg >>

onTomorrow(c, id) ==
    /\ user[c]
    /\ tab[c] = "TODAY"
    /\ ~busy[c]
    /\ id \in IdsOf(Today(c))
    /\ IF addDaysThrows(baseDate[c])
       THEN FailSync(c)
       ELSE /\ Start(c, "onTomorrow", "batch",
                     rescheduleTasksRows(<< id >>, addDaysISO(baseDate[c], 1), 1), NoFields)
            /\ UNCHANGED << repo, user, baseDate, tab, allTasks, selected, msg >>

onDone(c, id) ==
    /\ user[c]
    /\ tab[c] = "TODAY"
    /\ ~busy[c]
    /\ id \in IdsOf(Today(c))
    /\ Start(c, "onDone", "batch", completeTasksRows(<< id >>, baseDate[c], 1, 0), NoFields)
    /\ UNCHANGED << repo, user, baseDate, tab, allTasks, selected, msg >>

onRemove(c, id) ==
    /\ user[c]
    /\ tab[c] = "TODAY"
    /\ ~busy[c]
    /\ id \in IdsOf(Today(c))
    /\ Start(c, "onRemove", "batch", removeTasksRows(<< id >>, TRUE, 0), NoFields)
    /\ UNCHANGED << repo, user, baseDate, tab, allTasks, selected, msg >>

\* the rows of the branch of onThrow that throwAction selects
throwRows(today, sel, base, a) ==
    IF a = "SWIPE" THEN rescheduleTasksIndividuallyRows(swipeItems(today, sel, base), 1)
    ELSE IF a = "DONE" THEN completeTasksRows(selectedIds(sel), base, 1, 1)
    ELSE IF a = "REMOVE" THEN removeTasksRows(selectedIds(sel), TRUE, 1)
    ELSE rescheduleTasksRows(selectedIds(sel), addDaysISO(base, actionToDays(a)), 1)

onThrow(c, a) ==
    /\ user[c]
    /\ tab[c] = "TODAY"
    /\ ~busy[c]
    /\ Len(selectedIds(selected[c])) # 0
    /\ IF a \notin {"DONE", "REMOVE"} /\ addDaysThrows(baseDate[c])
       THEN FailSync(c)
       ELSE /\ Start(c, "onThrow", "batch",
                     throwRows(Today(c), selected[c], baseDate[c], a), NoFields)
            /\ UNCHANGED << repo, user, baseDate, tab, allTasks, selected, msg >>

onBackFromFuture(c, id) ==
    /\ user[c]
    /\ tab[c] = "FUTURE"
    /\ ~busy[c]
    /\ id \in IdsOf(Future(c))
    /\ Start(c, "onBackFromFuture", "batch",
             updateTaskRows(id, [dueDate |-> baseDate[c],
                                 sorter  |-> nextSorterForSortOrder(Today(c), MaxSortOrder)]),
             NoFields)
    /\ UNCHANGED << repo, user, baseDate, tab, allTasks, selected, msg >>

onBackFromRemoved(c, id) ==
    /\ user[c]
    /\ tab[c] = "REMOVED"
    /\ ~busy[c]
    /\ id \in IdsOf(Removed(c))
    /\ Start(c, "onBackFromRemoved", "batch",
             updateTaskRows(id, [dueDate |-> baseDate[c], removed |-> FALSE,
                                 sorter  |-> nextSorterForSortOrder(Today(c), MaxSortOrder)]),
             NoFields)
    /\ UNCHANGED << repo, user, baseDate, tab, allTasks, selected, msg >>

\* a drop of the row `active` on the row `over`; the rows take drags whatever
\* the busy flag is
onDragEnd(c, active, over) ==
    /\ user[c]
    /\ tab[c] = "TODAY"
    /\ active # over
    /\ active \in IdsOf(Today(c))
    /\ over \in IdsOf(Today(c))
    /\ LET today   == Today(c)
           updates == dragUpdates(today, IndexOf(today, active), IndexOf(today, over))
           local   == applyLocal(allTasks[c], updates)
       IN  /\ Start(c, "onDragEnd", "batch", updateOrderingRows(updates), NoFields)
           /\ allTasks' = [allTasks EXCEPT ![c] = local]
           /\ selected' = [selected EXCEPT ![c] = pruneSelected(@, todayTasks(local, baseDate[c]))]
    /\ UNCHANGED << repo, user, baseDate, tab, msg >>

(***************************************************************************)
(* Handlers: the continuations after each await.                           *)
(***************************************************************************)
\* the handlers whose continuation after the write is a re-fetch
Refetches(h) == h # "onDragEnd"

\* the end of a handler without its finally block
FinishKeepBusy(c, i) ==
    /\ UNCHANGED busy
    /\ inflight' = [inflight EXCEPT ![c] = RemoveAt(@, i)]

\* finally { setBusy(false) }: the invocation ends
Finish(c, i) ==
    /\ busy' = [busy EXCEPT ![c] = FALSE]
    /\ inflight' = [inflight EXCEPT ![c] = RemoveAt(@, i)]

\* what runs when the awaited store function resolves
AfterWrite(c, i) ==
    LET op == inflight[c][i]
    IN  IF op.h = "onDragEnd"
        THEN /\ msg' = [msg EXCEPT ![c] = "ok"]
             /\ Finish(c, i)
             /\ UNCHANGED selected
        ELSE /\ inflight' = [inflight EXCEPT ![c][i].phase = "refresh"]
             /\ IF op.h = "onThrow"
                THEN /\ msg' = [msg EXCEPT ![c] = "ok"]
                     /\ selected' = [selected EXCEPT ![c] = << >>]
                ELSE UNCHANGED << msg, selected >>
             /\ UNCHANGED busy

\* addDoc, or b.commit() of the next chunk of batchUpdate, succeeds
Commit(c, i) ==
    /\ i \in 1..Len(inflight[c])
    /\ inflight[c][i].phase = "write"
    /\ LET op    == inflight[c][i]
           parts == chunk(op.rows, BatchLimit)
       IN  IF op.kind = "create"
           THEN /\ repo' = Append(repo, op.doc)
                /\ AfterWrite(c, i)
           ELSE IF Len(parts) = 0
           THEN /\ UNCHANGED repo
                /\ AfterWrite(c, i)
           ELSE /\ partCommittable(repo, parts[op.done + 1])
                /\ repo' = commitPart(repo, parts[op.done + 1], op.now)
                /\ IF op.done + 1 = Len(parts)
                   THEN AfterWrite(c, i)
                   ELSE /\ inflight' = [inflight EXCEPT ![c][i].done = op.done + 1]
                        /\ UNCHANGED << msg, selected, busy >>
    /\ UNCHANGED << clock, opsLeft, uiLeft, user, baseDate, tab, allTasks >>

\* addDoc, or b.commit() of the next chunk, rejects: nothing of it is written,
\* the later chunks are never sent, and the handler's catch runs
CommitFail(c, i) ==
    /\ i \in 1..Len(inflight[c])
    /\ inflight[c][i].phase = "write"
    /\ msg' = [msg EXCEPT ![c] = "error"]
    /\ IF inflight[c][i].h = "onDragEnd"
       THEN /\ inflight' = [inflight EXCEPT ![c][i].phase = "refreshAfterError"]
            /\ UNCHANGED busy
       ELSE Finish(c, i)
    /\ UNCHANGED << repo, clock, opsLeft, uiLeft, user, baseDate, tab, allTasks, selected >>

\* refresh: listTasks resolves, setAllTasks, then the selection pruning effect
Refresh(c, i) ==
    /\ i \in 1..Len(inflight[c])
    /\ inflight[c][i].phase \in {"refresh", "refreshAfterError"}
    /\ LET list == listTasks(repo, Owner)
       IN  /\ allTasks' = [allTasks EXCEPT ![c] = list]
           /\ selected' = [selected EXCEPT ![c] = pruneSelected(@, todayTasks(list, baseDate[c]))]
    /\ IF inflight[c][i].phase = "refresh" /\ inflight[c][i].h # "onThrow"
       THEN msg' = [msg EXCEPT ![c] = "ok"]
       ELSE UNCHANGED msg
    /\ Finish(c, i)
    /\ UNCHANGED << repo, clock, opsLeft, uiLeft, user, baseDate, tab >>

\* refresh: listTasks rejects
RefreshFail(c, i) ==
    /\ i \in 1..Len(inflight[c])
    /\ inflight[c][i].phase \in {"refresh", "refreshAfterError"}
    /\ IF inflight[c][i].phase = "refresh"
       THEN msg' = [msg EXCEPT ![c] = "error"]
       ELSE UNCHANGED msg
    /\ Finish(c, i)
    /\ UNCHANGED << repo, clock, opsLeft, uiLeft, user, baseDate, tab, allTasks, selected >>

(***************************************************************************)
(* Specification: one client at work.                                      *)
(***************************************************************************)
TabKeys == {"TODAY", "FUTURE", "REMOVED"}

Slots == 1..MaxInflight

ClientNext(c) ==
    \/ AuthChanged(c)
    \/ \E d \in BaseDates : SetBaseDate(c, d)
    \/ \E k \in TabKeys : SetTab(c, k)
    \/ \E id \in DOMAIN repo : Toggle(c, id)
    \/ ToastExpire(c)
    \/ \E t \in Titles, so \in BandChoices : onAdd(c, t, so)
    \/ \E id \in DOMAIN repo, so \in BandChoices : onChangeSortOrder(c, id, so)
    \/ \E id \in DOMAIN repo : onTomorrow(c, id)
    \/ \E id \in DOMAIN repo : onDone(c, id)
    \/ \E id \in DOMAIN repo : onRemove(c, id)
    \/ \E a \in ThrowActions : onThrow(c, a)
    \/ \E id \in DOMAIN repo : onBackFromFuture(c, id)
    \/ \E id \in DOMAIN repo : onBackFromRemoved(c, id)
    \/ \E active \in DOMAIN repo, over \in DOMAIN repo : onDragEnd(c, active, over)
    \/ \E i \in Slots : Commit(c, i)
    \/ \E i \in Slots : CommitFail(c, i)
    \/ \E i \in Slots : Refresh(c, i)
    \/ \E i \in Slots : RefreshFail(c, i)

Next == ClientNext("c1")

Spec == Init /\ [][Next]_vars

\* one client, one repository, room for a second handler invocation
InitBusy ==
    InitFrom(<< SeedDoc(RefA, 3, 1000, FALSE, 1), SeedDoc(RefB, 3, 2000, FALSE, 2),
                SeedDoc(RefA, 3, 3000, TRUE, 3) >>, MaxOps + 1, 1)

SpecBusy == InitBusy /\ [][Next]_vars

\* the numbers of tasks that fill one batch, overflow it by one, and need three
BulkSizes == {BatchLimit, BatchLimit + 1, 2 * BatchLimit + 1}

\* a repository of n tasks of one band, all due
BulkRepo(n) == [k \in 1..n |-> SeedDoc(RefA, MaxSortOrder, k * SorterStep, FALSE, k)]

\* the page with every task of Today ticked, ready for a bulk throw
InitBatch ==
    /\ \E n \in BulkSizes : repo = BulkRepo(n)
    /\ clock = Len(repo)
    /\ opsLeft = MaxOps
    /\ uiLeft = 0
    /\ user = [c \in Clients |-> TRUE]
    /\ baseDate = [c \in Clients |-> RefA]
    /\ tab = [c \in Clients |-> "TODAY"]
    /\ allTasks = [c \in Clients |-> listTasks(repo, Owner)]
    /\ selected = [c \in Clients |->
                      IF c = "c1" THEN [k \in 1..Len(repo) |-> [id |-> k, on |-> TRUE]]
                      ELSE << >>]
    /\ busy = [c \in Clients |-> FALSE]
    /\ msg = [c \in Clients |-> "none"]
    /\ inflight = [c \in Clients |-> << >>]

\* the bulk throw and what follows it
NextBatch ==
    \/ \E a \in ThrowActions : onThrow("c1", a)
    \/ \E i \in Slots : Commit("c1", i)
    \/ \E i \in Slots : CommitFail("c1", i)
    \/ \E i \in Slots : Refresh("c1", i)
    \/ \E i \in Slots : RefreshFail("c1", i)
    \/ ToastExpire("c1")

SpecBatch == InitBatch /\ [][NextBatch]_vars

(***************************************************************************)
(* Specification: reading records that earlier builds and cleared date     *)
(* inputs leave behind.                                                    *)
(***************************************************************************)
\* the fields a stored record may lack: records of the first build have no
\* sortOrder, and an update may store an empty dueDate
OptionalFields == {"sortOrder", "sorter", "dueDate"}

\* a stored record without some of its fields
LegacyDoc(doc, missing) == [f \in DOMAIN doc \ missing |-> doc[f]]

\* repositories of three records: one that lacks fields, one due on or after
\* RefA, one due on the day after or on the last day
ReadRepos ==
    { << LegacyDoc(SeedDoc(RefA, band, sorter, removed, 1), missing),
         SeedDoc(due2, 3, 3000, FALSE, 2),
         SeedDoc(due3, 24, 30000, FALSE, 3) >> :
        band \in {1, 24}, sorter \in {1000, 3000, 30000}, removed \in BOOLEAN,
        missing \in SUBSET OptionalFields, due2 \in {RefA, RefB}, due3 \in {RefB, RefLast} }

\* the page mounted on such a repository; no handler writes
InitRead == \E store \in ReadRepos : InitFrom(store, 0, MaxUi)

\* the events that read and partition the snapshot
NextRead ==
    \/ AuthChanged("c1")
    \/ \E d \in BaseDates : SetBaseDate("c1", d)
    \/ \E k \in TabKeys : SetTab("c1", k)
    \/ \E id \in DOMAIN repo : Toggle("c1", id)

SpecRead == InitRead /\ [][NextRead]_vars

(***************************************************************************)
(* Specification: a snapshot that holds a task whose record is gone.       *)
(***************************************************************************)
\* three tasks of bands [1,1,3] were fetched; since then the record of the
\* third was deleted from outside the page
GoneSnapshot ==
    << SeedDoc(RefA, 1, 1000, FALSE, 1), SeedDoc(RefA, 1, 2000, FALSE, 2),
       SeedDoc(RefA, 3, 1000, FALSE, 3) >>

InitGone ==
    /\ repo = SubSeq(GoneSnapshot, 1, 2)
    /\ clock = Len(GoneSnapshot)
    /\ opsLeft = MaxOps
    /\ uiLeft = MaxUi
    /\ user = [c \in Clients |-> TRUE]
    /\ baseDate = [c \in Clients |-> RefA]
    /\ tab = [c \in Clients |-> "TODAY"]
    /\ allTasks = [c \in Clients |-> listTasks(GoneSnapshot, Owner)]
    /\ selected = [c \in Clients |-> << >>]
    /\ busy = [c \in Clients |-> FALSE]
    /\ msg = [c \in Clients |-> "none"]
    /\ inflight = [c \in Clients |-> << >>]

\* the ids of the snapshot
SnapshotIds(c) == IdsOf(allTasks[c])

\* the handlers that update records, and what follows them
NextGone ==
    \/ \E id \in SnapshotIds("c1") : Toggle("c1", id)
    \/ ToastExpire("c1")
    \/ \E id \in SnapshotIds("c1"), so \in BandChoices : onChangeSortOrder("c1", id, so)
    \/ \E id \in SnapshotIds("c1") : onTomorrow("c1", id)
    \/ \E id \in SnapshotIds("c1") : onDone("c1", id)
    \/ \E id \in SnapshotIds("c1") : onRemove("c1", id)
    \/ \E a \in ThrowActions : onThrow("c1", a)
    \/ \E active \in SnapshotIds("c1"), over \in SnapshotIds("c1") : onDragEnd("c1", active, over)
    \/ \E i \in Slots : Commit("c1", i)
    \/ \E i \in Slots : CommitFail("c1", i)
    \/ \E i \in Slots : Refresh("c1", i)
    \/ \E i \in Slots : RefreshFail("c1", i)

SpecGone == InitGone /\ [][NextGone]_vars

(***************************************************************************)
(* Specification: every promise of the repository settles.                 *)
(***************************************************************************)
\* addDoc and b.commit() resolve or reject
WriteSettles(c, i) == Commit(c, i) \/ CommitFail(c, i)

\* listTasks resolves or rejects
ReadSettles(c, i) == Refresh(c, i) \/ RefreshFail(c, i)

Settling ==
    \A i \in Slots : WF_vars(WriteSettles("c1", i)) /\ WF_vars(ReadSettles("c1", i))

\* one repository, room for a second handler invocation while the first is
\* in flight
SpecLive == InitBusy /\ [][Next]_vars /\ Settling

(***************************************************************************)
(* Specification: two clients of one owner reorder at the same time.       *)
(***************************************************************************)
\* three tasks of band 3, the third due the day after the others
SharedRepo ==
    << SeedDoc(RefA, 3, 1000, FALSE, 1), SeedDoc(RefA, 3, 2000, FALSE, 2),
       SeedDoc(RefB, 3, 3000, FALSE, 3) >>

\* both pages have fetched the list; the first shows RefA, the second RefB
InitTwo ==
    /\ repo = SharedRepo
    /\ clock = Len(repo)
    /\ opsLeft = MaxOps + 1
    /\ uiLeft = 0
    /\ user = [c \in Clients |-> TRUE]
    /\ baseDate = [c \in Clients |-> IF c = "c1" THEN RefA ELSE RefB]
    /\ tab = [c \in Clients |-> "TODAY"]
    /\ allTasks = [c \in Clients |-> listTasks(repo, Owner)]
    /\ selected = [c \in Clients |-> << >>]
    /\ busy = [c \in Clients |-> FALSE]
    /\ msg = [c \in Clients |-> "none"]
    /\ inflight = [c \in Clients |-> << >>]

\* the drags of either client and what follows them
NextTwo ==
    \E c \in Clients :
        \/ \E active \in DOMAIN repo, over \in DOMAIN repo : onDragEnd(c, active, over)
        \/ \E i \in Slots : Commit(c, i)
        \/ \E i \in Slots : CommitFail(c, i)
        \/ \E i \in Slots : Refresh(c, i)
        \/ \E i \in Slots : RefreshFail(c, i)
        \/ ToastExpire(c)

SpecTwo == InitTwo /\ [][NextTwo]_vars

(***************************************************************************)
(* Specification: two clients of one owner throw and complete at once.     *)
(***************************************************************************)
\* both pages have fetched the list and have task 1 ticked; the first shows
\* RefA, the second RefB
InitRace ==
    /\ repo = SharedRepo
    /\ clock = Len(repo)
    /\ opsLeft = MaxOps + 1
    /\ uiLeft = 0
    /\ user = [c \in Clients |-> TRUE]
    /\ baseDate = [c \in Clients |-> IF c = "c1" THEN RefA ELSE RefB]
    /\ tab = [c \in Clients |-> "TODAY"]
    /\ allTasks = [c \in Clients |-> listTasks(repo, Owner)]
    /\ selected = [c \in Clients |-> << [id |-> 1, on |-> TRUE] >>]
    /\ busy = [c \in Clients |-> FALSE]
    /\ msg = [c \in Clients |-> "none"]
    /\ inflight = [c \in Clients |-> << >>]

\* the lifecycle buttons and the bulk throw of either client, and what
\* follows them
NextRace ==
    \E c \in Clients :
        \/ \E id \in DOMAIN repo : onTomorrow(c, id)
        \/ \E id \in DOMAIN repo : onDone(c, id)
        \/ \E id \in DOMAIN repo : onRemove(c, id)
        \/ \E a \in ThrowActions : onThrow(c, a)
        \/ \E i \in Slots : Commit(c, i)
        \/ \E i \in Slots : CommitFail(c, i)
        \/ \E i \in Slots : Refresh(c, i)
        \/ \E i \in Slots : RefreshFail(c, i)
        \/ ToastExpire(c)

SpecRace == InitRace /\ [][NextRace]_vars

(***************************************************************************)
(* Specification: the date arithmetic on its own.                          *)
(***************************************************************************)
\* dates in the 4-2-2 digit pattern: "2024-02-28", "9999-12-31", "2000-02-29",
\* "1999-12-31", "1000-01-01", "0050-06-15"
DateSamples ==
    { RefA, RefLast,
      << 50, 48, 48, 48, Hyphen, 48, 50, Hyphen, 50, 57 >>,
      << 49, 57, 57, 57, Hyphen, 49, 50, Hyphen, 51, 49 >>,
      << 49, 48, 48, 48, Hyphen, 48, 49, Hyphen, 48, 49 >>,
      << 48, 48, 53, 48, Hyphen, 48, 54, Hyphen, 49, 53 >> }

\* numbers of days to add
Shifts == {-365, -1, 0, 1, 30, 366}

InitDate ==
    /\ repo = << >>
    /\ clock = 0
    /\ opsLeft = 0
    /\ uiLeft = MaxUi
    /\ user = [c \in Clients |-> TRUE]
    /\ \E d \in DateSamples : baseDate = [c \in Clients |-> IF c = "c1" THEN d ELSE RefA]
    /\ tab = [c \in Clients |-> "TODAY"]
    /\ allTasks = [c \in Clients |-> << >>]
    /\ selected = [c \in Clients |-> << >>]
    /\ busy = [c \in Clients |-> FALSE]
    /\ msg = [c \in Clients |-> "none"]
    /\ inflight = [c \in Clients |-> << >>]

\* addDaysISO(date, n) applied to the date held
ApplyAddDays(c, n) ==
    /\ ~addDaysThrows(baseDate[c])
    /\ baseDate' = [baseDate EXCEPT ![c] = addDaysISO(@, n)]
    /\ UiEvent
    /\ UNCHANGED << repo, clock, user, tab, allTasks, selected, busy, msg, inflight >>

NextDate == \E n \in Shifts : ApplyAddDays("c1", n)

SpecDate == InitDate /\ [][NextDate]_vars

(***************************************************************************)
(* Specification: a reference date with a five-digit year.                 *)
(***************************************************************************)
\* "10000-01-01": the day after RefLast; the date input takes years of more
\* than four digits
RefOver == addDaysISO(RefLast, 1)

\* two tasks added while RefOver was the reference date, and one due on RefA
OverRepo ==
    << SeedDoc(RefOver, 3, 1000, FALSE, 1), SeedDoc(RefOver, 3, 2000, FALSE, 2),
       SeedDoc(RefA, 3, 3000, FALSE, 3) >>

InitOver ==
    /\ repo = OverRepo
    /\ clock = Len(repo)
    /\ opsLeft = MaxOps
    /\ uiLeft = MaxUi
    /\ user = [c \in Clients |-> TRUE]
    /\ baseDate = [c \in Clients |-> RefOver]
    /\ tab = [c \in Clients |-> "TODAY"]
    /\ allTasks = [c \in Clients |-> listTasks(repo, Owner)]
    /\ selected = [c \in Clients |-> << >>]
    /\ busy = [c \in Clients |-> FALSE]
    /\ msg = [c \in Clients |-> "none"]
    /\ inflight = [c \in Clients |-> << >>]

\* the date input, the checkboxes, the throws and what follows them
NextOver ==
    \/ \E d \in {RefA, RefLast, RefOver} : SetBaseDate("c1", d)
    \/ \E id \in DOMAIN repo : Toggle("c1", id)
    \/ ToastExpire("c1")
    \/ \E id \in DOMAIN repo : onTomorrow("c1", id)
    \/ \E a \in ThrowActions : onThrow("c1", a)
    \/ \E i \in Slots : Commit("c1", i)
    \/ \E i \in Slots : CommitFail("c1", i)
    \/ \E i \in Slots : Refresh("c1", i)
    \/ \E i \in Slots : RefreshFail("c1", i)

SpecOver == InitOver /\ [][NextOver]_vars

(***************************************************************************)
(* Specification: the bulk functions of the store called with any id list. *)
(***************************************************************************)
MaxIds == 3

\* the lists of up to MaxIds ids, each the empty id (0) or that of task 1 or 2
IdLists == UNION {[1..n -> 0..2] : n \in 0..MaxIds}

\* the due date the k-th item of a list asks for
ItemDue(k) == addDaysISO(RefA, k)

ItemsOf(ids) == [k \in 1..Len(ids) |-> [id |-> ids[k], dueDate |-> ItemDue(k)]]

InitStore ==
    InitFrom(<< SeedDoc(RefA, 1, 1000, FALSE, 1), SeedDoc(RefA, 1, 2000, FALSE, 2),
                SeedDoc(RefA, 3, 1000, FALSE, 3) >>, MaxOps + 1, 0)

\* if (!ids.length) return: the call resolves and nothing is sent
ReturnsEarly ==
    /\ OpEvent
    /\ UNCHANGED << repo, clock, user, baseDate, tab, allTasks, selected, busy, msg, inflight >>

\* now = Date.now() and batchUpdate(rows, now) resolving: the rows fit in one
\* chunk, which is committed
batchUpdate(rows) ==
    /\ OpEvent
    /\ clock' = clock + 1
    /\ Len(chunk(rows, BatchLimit)) = 1
    /\ partCommittable(repo, rows)
    /\ repo' = commitPart(repo, chunk(rows, BatchLimit)[1], clock + 1)
    /\ UNCHANGED << user, baseDate, tab, allTasks, selected, busy, msg, inflight >>

completeTasks(ids) ==
    LET rows == completeTasksRows(ids, RefA, 1, 1)
    IN  IF Len(rows) = 0 THEN ReturnsEarly ELSE batchUpdate(rows)

rescheduleTasks(ids) ==
    LET rows == rescheduleTasksRows(ids, RefB, 1)
    IN  IF Len(rows) = 0 THEN ReturnsEarly ELSE batchUpdate(rows)

rescheduleTasksIndividually(ids) ==
    LET rows == rescheduleTasksIndividuallyRows(ItemsOf(ids), 1)
    IN  IF Len(rows) = 0 THEN ReturnsEarly ELSE batchUpdate(rows)

removeTasks(ids) ==
    LET rows == removeTasksRows(ids, TRUE, 1)
    IN  IF Len(rows) = 0 THEN ReturnsEarly ELSE batchUpdate(rows)

NextStore ==
    \/ \E ids \in IdLists : completeTasks(ids)
    \/ \E ids \in IdLists : rescheduleTasks(ids)
    \/ \E ids \in IdLists : rescheduleTasksIndividually(ids)
    \/ \E ids \in IdLists : removeTasks(ids)

SpecStore == InitStore /\ [][NextStore]_vars

(***************************************************************************)
(* Properties.                                                             *)
(***************************************************************************)
\* this step starts an invocation of handler h in client c
Started(c, h) ==
    /\ Len(inflight'[c]) = Len(inflight[c]) + 1
    /\ inflight'[c][Len(inflight'[c])].h = h

\* the invocation this step started
NewOp(c) == inflight'[c][Len(inflight'[c])]

\* the repository once the write of an invocation is committed in full
Written(store, op) ==
    IF op.kind = "create" THEN Append(store, op.doc) ELSE commitPart(store, op.rows, op.now)

SortersOf(list) == [k \in 1..Len(list) |-> list[k].sorter]

StrictlyIncreasing(q) == \A k \in 1..(Len(q) - 1) : q[k] < q[k + 1]

KeysDistinct(list) ==
    \A i, j \in 1..Len(list) :
        i # j => << list[i].sortOrder, list[i].sorter >> # << list[j].sortOrder, list[j].sorter >>

\* the views that hold the task with the given id, given the ids in each view
ViewsOf(id, T, F, R) ==
    (IF id \in T THEN {"Today"} ELSE {})
        \cup (IF id \in F THEN {"Future"} ELSE {})
        \cup (IF id \in R THEN {"Removed"} ELSE {})

\* C1: for every reference date, every task of the snapshot is in exactly one
\* of Today, Future and Removed, and tasks that agree on dueDate and removed
\* are in the same view.
C1_ExactlyOneView ==
    \A c \in Clients : \A base \in BaseDates :
        LET all == allTasks[c]
            T   == IdsOf(todayTasks(all, base))
            F   == IdsOf(futureTasks(all, base))
            R   == IdsOf(removedTasks(all))
        IN  \A k \in 1..Len(all) :
                /\ Cardinality(ViewsOf(all[k].id, T, F, R)) = 1
                /\ \A j \in 1..Len(all) :
                       (all[j].dueDate = all[k].dueDate /\ all[j].removed = all[k].removed)
                           => ViewsOf(all[j].id, T, F, R) = ViewsOf(all[k].id, T, F, R)

\* a handler has run to its end and the snapshot has a task in each view
C1_Witness ==
    /\ opsLeft = 0
    /\ inflight["c1"] = << >>
    /\ Len(Today("c1")) > 0
    /\ Len(Future("c1")) > 0
    /\ Len(Removed("c1")) > 0

\* C2: a drag leaves Today, read in its order, with strictly increasing
\* sorters and with the length and the ids it had: in the snapshot as soon as
\* the drop is handled, and, the snapshot being current, in the repository as
\* re-fetched once the write is committed.
C2_ReorderIncreasing ==
    [][\A c \in Clients :
          Started(c, "onDragEnd") =>
              LET old   == Today(c)
                  new   == todayTasks(allTasks'[c], baseDate'[c])
                  saved == todayTasks(listTasks(Written(repo, NewOp(c)), Owner), baseDate[c])
              IN  /\ StrictlyIncreasing(SortersOf(new))
                  /\ Len(new) = Len(old)
                  /\ IdsOf(new) = IdsOf(old)
                  /\ allTasks[c] = listTasks(repo, Owner) =>
                         /\ StrictlyIncreasing(SortersOf(saved))
                         /\ Len(saved) = Len(old)
                         /\ IdsOf(saved) = IdsOf(old)]_vars

\* the third task of a three-task Today was dragged to the head and the write
\* is committed
C2_Witness ==
    /\ inflight["c1"] = << >>
    /\ Len(repo) = 3
    /\ repo[3].sorter = SorterStep
    /\ repo[1].sorter = 2 * SorterStep
    /\ repo[2].sorter = 3 * SorterStep
    /\ Len(Today("c1")) = 3

\* the ids of Today after task a is taken out and put back at position new
NewOrder(today, a, new) ==
    LET rest == SelectSeq(today, LAMBDA t : t.id # a)
    IN  [p \in 1..Len(today) |->
            IF p = new THEN a ELSE rest[IF p < new THEN p ELSE p - 1].id]

\* C3: in a drag of a onto o the moved task a takes the sortOrder of its new
\* previous neighbour (of its new next neighbour at the head), every task of
\* the list gets sorter = position * 1000 (positions from 1), every other task
\* keeps its sortOrder; the write stores exactly these keys.
C3_ReorderKeys ==
    [][\A c \in Clients :
          Started(c, "onDragEnd") => \A a, o \in DOMAIN repo : onDragEnd(c, a, o) =>
              LET old   == Today(c)
                  order == NewOrder(old, a, IndexOf(old, o))
                  saved == Written(repo, NewOp(c))
              IN  \A p \in 1..Len(order) :
                      LET before == TaskOf(allTasks[c], order[p])
                          after  == TaskOf(allTasks'[c], order[p])
                      IN  /\ after.sorter = p * 1000
                          /\ order[p] # a => after.sortOrder = before.sortOrder
                          /\ (order[p] = a /\ p > 1) =>
                                after.sortOrder = TaskOf(allTasks[c], order[p - 1]).sortOrder
                          /\ (order[p] = a /\ p = 1) =>
                                after.sortOrder = TaskOf(allTasks[c], order[p + 1]).sortOrder
                          /\ saved[order[p]].sorter = after.sorter
                          /\ saved[order[p]].sortOrder = after.sortOrder]_vars

\* bands [1,1,3]: the third task was dragged onto the second and now has
\* band 1; the sorters are 1000, 2000, 3000 in the new order
C3_Witness ==
    /\ inflight["c1"] = << >>
    /\ Len(repo) = 3
    /\ repo[1].sortOrder = 1 /\ repo[1].sorter = 1000
    /\ repo[3].sortOrder = 1 /\ repo[3].sorter = 2000
    /\ repo[2].sortOrder = 1 /\ repo[2].sorter = 3000

\* the handlers that call the ordering engine
OrderingCalls ==
    {"onAdd", "onChangeSortOrder", "onBackFromFuture", "onBackFromRemoved", "onDragEnd"}

\* C4: when the snapshot is current and the keys (sortOrder, sorter) of Today
\* are pairwise distinct, one Add, changeBand, restore or drag leaves them
\* pairwise distinct: in Today as re-fetched after the write, and in the
\* snapshot the drag rewrites.
C4_NoKeyCollision ==
    [][\A c \in Clients :
          (/\ Len(inflight'[c]) > Len(inflight[c])
           /\ NewOp(c).h \in OrderingCalls
           /\ allTasks[c] = listTasks(repo, Owner)
           /\ KeysDistinct(Today(c)))
              => /\ KeysDistinct(todayTasks(listTasks(Written(repo, NewOp(c)), Owner),
                                            baseDate[c]))
                 /\ NewOp(c).h = "onDragEnd"
                        => KeysDistinct(todayTasks(allTasks'[c], baseDate[c]))]_vars

\* the sorter the claims give a task that enters Today in the given band
BandMaxPlusStep(today, band) ==
    LET S == {today[k].sorter : k \in {j \in 1..Len(today) : today[j].sortOrder = band}}
    IN  IF S = {} THEN 1000 ELSE (CHOOSE m \in S : \A x \in S : x <= m) + 1000

\* C5: a restore writes the sorter that follows the largest sorter of the
\* restored task's own band in Today.
C5_RestoreOwnBand ==
    [][\A c \in Clients : \A id \in DOMAIN repo :
          (Len(inflight'[c]) > Len(inflight[c])
              /\ (onBackFromFuture(c, id) \/ onBackFromRemoved(c, id))) =>
              NewOp(c).rows[1].set.sorter
                  = BandMaxPlusStep(Today(c), TaskOf(allTasks[c], id).sortOrder)]_vars

\* C6: for every band, nextSorterForSortOrder over Today is 1000 when the band
\* is empty and otherwise the band's largest sorter plus 1000, so it exceeds
\* every sorter of the band.
C6_AssignAboveBand ==
    \A c \in Clients :
        LET today == Today(c)
        IN  \A band \in MinSortOrder..MaxSortOrder :
                LET v == nextSorterForSortOrder(today, band)
                IN  /\ v = BandMaxPlusStep(today, band)
                    /\ \A k \in 1..Len(today) :
                           today[k].sortOrder = band => v > today[k].sorter

\* a task was added to band 1, which held sorters 1000 and 2000
C6_Witness ==
    /\ inflight["c1"] = << >>
    /\ Len(repo) = 4
    /\ repo[4].sortOrder = 1
    /\ repo[4].sorter = 3000
    /\ 4 \in IdsOf(Today("c1"))

\* C7: whenever an invocation of onThrow ends, the selection is empty.
C7_ThrowClearsSelection ==
    [][\A c \in Clients : \A i \in Slots :
          ((CommitFail(c, i) \/ Refresh(c, i) \/ RefreshFail(c, i)) /\ inflight[c][i].h = "onThrow")
              => selectedIds(selected'[c]) = << >>]_vars

\* C8: a write that fails is followed by a re-fetch.
C8_FailureRefetches ==
    [][\A c \in Clients : \A i \in Slots :
          CommitFail(c, i) =>
              /\ Len(inflight'[c]) = Len(inflight[c])
              /\ inflight'[c][i].phase = "refreshAfterError"]_vars

\* C9: batchUpdate commits the rows in consecutive chunks of at most 450, in
\* list order.  A commit applies exactly the updates of the next chunk and
\* changes no other document.  A rejected commit writes nothing, ends the
\* writing and reaches the caller (its catch runs), and leaves exactly the
\* rows of the earlier chunks updated.
C9_ChunkedPrefix ==
    [][\A c \in Clients : \A i \in Slots :
          /\ (Commit(c, i) /\ inflight[c][i].kind = "batch" /\ Len(inflight[c][i].rows) > 0) =>
                LET op      == inflight[c][i]
                    lo      == op.done * 450
                    hi      == Min2(lo + 450, Len(op.rows))
                    next    == {op.rows[k].id : k \in (lo + 1)..hi}
                    changed == {id \in DOMAIN repo : repo'[id] # repo[id]}
                    wrong   == {k \in (lo + 1)..hi :
                                   repo'[op.rows[k].id]
                                       # applyUpdate(repo[op.rows[k].id], op.rows[k], op.now)}
                IN  /\ changed = next
                    /\ wrong = {}
                    /\ Cardinality(changed) <= 450
                    /\ DOMAIN repo' = DOMAIN repo
          /\ (CommitFail(c, i) /\ inflight[c][i].kind = "batch") =>
                LET op      == inflight[c][i]
                    touched == {k \in 1..Len(op.rows) :
                                   repo[op.rows[k].id].updatedAtMs = op.now}
                IN  /\ repo' = repo
                    /\ msg'[c] = "error"
                    /\ {j \in 1..Len(inflight'[c]) : inflight'[c][j].phase = "write"} = {}
                    /\ touched = 1..(op.done * 450)]_vars

\* a bulk throw of 901 tasks whose third commit was rejected: the first 900
\* are updated, the last is not
C9_Witness ==
    /\ inflight["c1"] = << >>
    /\ msg["c1"] = "error"
    /\ Len(repo) = 901
    /\ repo[1].updatedAtMs = clock
    /\ repo[900].updatedAtMs = clock
    /\ repo[901].updatedAtMs # clock

\* C10: a client has at most one handler invocation in flight.
C10_Serialised == \A c \in Clients : Len(inflight[c]) <= 1

\* the ids the rows of an invocation write to
RowIds(op) == {op.rows[k].id : k \in 1..Len(op.rows)}

\* the ids ticked in the selection of client c
Ticked(c) == {selectedIds(selected[c])[k] : k \in 1..Len(selectedIds(selected[c]))}

\* C11: a change of the reference date leaves the selection empty, and a bulk
\* throw writes only to tasks that are ticked when it is issued; so a task
\* ticked under the old date is not thrown unless it is ticked again.
C11_DateChangeClearsSelection ==
    [][\A c \in Clients :
          /\ baseDate'[c] # baseDate[c] => selectedIds(selected'[c]) = << >>
          /\ Started(c, "onThrow") => RowIds(NewOp(c)) \subseteq Ticked(c)]_vars

\* after a change of the date, task 2 alone was ticked and thrown: the throw
\* in flight writes to task 2 only
C11_Witness ==
    /\ baseDate["c1"] = RefB
    /\ uiLeft = 0
    /\ Len(inflight["c1"]) = 1
    /\ inflight["c1"][1].h = "onThrow"
    /\ RowIds(inflight["c1"][1]) = {2}
    /\ Len(Today("c1")) = 3

\* C12: leaving the Today tab leaves the selection empty.
C12_TabChangeClearsSelection ==
    [][\A c \in Clients :
          (tab[c] = "TODAY" /\ tab'[c] # "TODAY") => selectedIds(selected'[c]) = << >>]_vars

\* the task with the given id as listTasks returns it from the store
Read(store, id) == TaskOf(listTasks(store, Owner), id)

\* C13: AdvanceOneDay on a Today task writes dueDate = addDays(R, 1) and
\* raises throwCount by exactly 1; re-fetched with R unchanged the task is in
\* Future and not in Today.
C13_AdvanceOneDay ==
    [][\A c \in Clients :
          Started(c, "onTomorrow") =>
              LET id    == NewOp(c).rows[1].id
                  saved == Written(repo, NewOp(c))
                  list  == listTasks(saved, Owner)
              IN  /\ Read(saved, id).dueDate = addDaysISO(baseDate[c], 1)
                  /\ Read(saved, id).throwCount = Read(repo, id).throwCount + 1
                  /\ id \in IdsOf(futureTasks(list, baseDate[c]))
                  /\ id \notin IdsOf(todayTasks(list, baseDate[c]))]_vars

\* C14: plain Complete raises doneCount by exactly 1 and sets lastDoneDate to
\* R whatever it was, and changes neither throwCount nor dueDate nor removed;
\* a task that the repository has in Today is, re-fetched, still in Today.
C14_PlainComplete ==
    [][\A c \in Clients :
          Started(c, "onDone") =>
              LET id    == NewOp(c).rows[1].id
                  saved == Written(repo, NewOp(c))
              IN  /\ Read(saved, id).doneCount = Read(repo, id).doneCount + 1
                  /\ Read(saved, id).lastDoneDate = baseDate[c]
                  /\ Read(saved, id).throwCount = Read(repo, id).throwCount
                  /\ Read(saved, id).dueDate = Read(repo, id).dueDate
                  /\ Read(saved, id).removed = Read(repo, id).removed
                  /\ id \in IdsOf(todayTasks(listTasks(repo, Owner), baseDate[c]))
                        => id \in IdsOf(todayTasks(listTasks(saved, Owner), baseDate[c]))]_vars

\* the task completed twice, last on RefB, is completed on RefA: doneCount 3,
\* lastDoneDate RefA, throwCount still 5
C14_Witness ==
    /\ inflight["c1"] = << >>
    /\ Len(repo) = 3
    /\ repo[1].doneCount = 3
    /\ repo[1].lastDoneDate = RefA
    /\ repo[1].throwCount = 5
    /\ ~repo[1].removed

\* C15: plain Remove sets removed = true and leaves throwCount as it was;
\* BulkThrow(Remove) sets removed = true and raises throwCount by exactly 1 on
\* every selected task.
C15_RemoveAndThrowCount ==
    [][\A c \in Clients :
          /\ Started(c, "onRemove") =>
                LET id    == NewOp(c).rows[1].id
                    saved == Written(repo, NewOp(c))
                IN  /\ Read(saved, id).removed
                    /\ Read(saved, id).throwCount = Read(repo, id).throwCount
          /\ (Started(c, "onThrow") /\ onThrow(c, "REMOVE")) =>
                LET saved == Written(repo, NewOp(c))
                IN  /\ Ticked(c) # {}
                    /\ \A id \in Ticked(c) :
                           /\ Read(saved, id).removed
                           /\ Read(saved, id).throwCount = Read(repo, id).throwCount + 1]_vars

\* the task thrown five times was ticked and bulk-removed: removed, thrown 6
\* times
C15_Witness ==
    /\ inflight["c1"] = << >>
    /\ Len(repo) = 3
    /\ repo[1].removed
    /\ repo[1].throwCount = 6
    /\ repo[1].doneCount = 2

\* the offsets of the bulk throws that move the due date
ThrowOffsets ==
    [TOMORROW |-> 1, DAY_AFTER |-> 2, WEEK |-> 7, MONTH |-> 30, MONTH3 |-> 90, YEAR |-> 365]

\* C16: BulkThrow(offset), offset in {1, 2, 7, 30, 90, 365}, writes dueDate =
\* addDays(R, offset) to every selected task and raises its throwCount by
\* exactly 1; it changes no task that is not selected.
C16_BulkThrowOffset ==
    [][\A c \in Clients : \A a \in DOMAIN ThrowOffsets :
          (Started(c, "onThrow") /\ onThrow(c, a)) =>
              LET saved == Written(repo, NewOp(c))
              IN  /\ Ticked(c) # {}
                  /\ \A id \in Ticked(c) :
                         /\ Read(saved, id).dueDate = addDaysISO(baseDate[c], ThrowOffsets[a])
                         /\ Read(saved, id).throwCount = Read(repo, id).throwCount + 1
                  /\ \A id \in DOMAIN repo \ Ticked(c) : saved[id] = repo[id]]_vars

\* on 2024-02-28 the task thrown five times was ticked and thrown a month:
\* due 2024-03-29, thrown 6 times; task 2 is as it was
C16_Witness ==
    /\ inflight["c1"] = << >>
    /\ Len(repo) = 3
    /\ repo[1].dueDate = << 50, 48, 50, 52, Hyphen, 48, 51, Hyphen, 50, 57 >>
    /\ repo[1].throwCount = 6
    /\ repo[2].dueDate = RefA
    /\ repo[2].updatedAtMs = 2

\* C17: BulkThrow(Swipe) writes to the i-th selected task in the screen order
\* of Today (i from 0) dueDate = addDays(R, i + 4) and raises its throwCount
\* by 1, whatever the order of ticking; the due dates written are increasing
\* in screen order.
C17_SwipeScreenOrder ==
    [][\A c \in Clients :
          (Started(c, "onThrow") /\ onThrow(c, "SWIPE")) =>
              LET saved   == Written(repo, NewOp(c))
                  checked == SelectSeq(Today(c), LAMBDA t : t.id \in Ticked(c))
                  due(i)  == Read(saved, checked[i].id).dueDate
              IN  /\ IdsOf(checked) = Ticked(c)
                  /\ \A i \in 1..Len(checked) :
                         /\ due(i) = addDaysISO(baseDate[c], (i - 1) + 4)
                         /\ Read(saved, checked[i].id).throwCount
                                = Read(repo, checked[i].id).throwCount + 1
                  /\ \A i \in 1..(Len(checked) - 1) : StrLess(due(i), due(i + 1))]_vars

\* on 2024-02-28 tasks 1 and 2 were swiped; task 2 is above task 1 on screen:
\* task 2 is due 2024-03-03 and task 1, thrown 6 times, 2024-03-04
C17_Witness ==
    /\ inflight["c1"] = << >>
    /\ Len(repo) = 3
    /\ repo[2].dueDate = << 50, 48, 50, 52, Hyphen, 48, 51, Hyphen, 48, 51 >>
    /\ repo[1].dueDate = << 50, 48, 50, 52, Hyphen, 48, 51, Hyphen, 48, 52 >>
    /\ repo[1].throwCount = 6
    /\ repo[2].throwCount = 1

\* C18: BulkThrow(Complete) sets lastDoneDate = R and raises both doneCount
\* and throwCount by exactly 1 on every selected task.
C18_BulkComplete ==
    [][\A c \in Clients :
          (Started(c, "onThrow") /\ onThrow(c, "DONE")) =>
              LET saved == Written(repo, NewOp(c))
              IN  /\ Ticked(c) # {}
                  /\ \A id \in Ticked(c) :
                         /\ Read(saved, id).lastDoneDate = baseDate[c]
                         /\ Read(saved, id).doneCount = Read(repo, id).doneCount + 1
                         /\ Read(saved, id).throwCount = Read(repo, id).throwCount + 1]_vars

\* the task completed twice and thrown 5 times is bulk-completed on RefA:
\* doneCount 3, throwCount 6, lastDoneDate RefA
C18_Witness ==
    /\ inflight["c1"] = << >>
    /\ Len(repo) = 3
    /\ repo[1].doneCount = 3
    /\ repo[1].throwCount = 6
    /\ repo[1].lastDoneDate = RefA
    /\ repo[1].dueDate = RefA

\* the band a number is clamped to
InBand(v) == IF v < 1 THEN 1 ELSE IF v > 24 THEN 24 ELSE v

\* C19: changeBand(task, newBand) clamps newBand into [1,24], writes only
\* that task's sortOrder and a freshly assigned sorter (the largest sorter of
\* the new band in Today plus the step), and leaves every other field of the
\* task but the write stamp, and every other task, unchanged.
C19_ChangeBandFrame ==
    [][/\ \A v \in (MinSortOrder - 2)..(MaxSortOrder + 2) : clampSortOrder(v) = InBand(v)
       /\ \A c \in Clients : \A id \in DOMAIN repo : \A so \in BandChoices :
             (Started(c, "onChangeSortOrder") /\ onChangeSortOrder(c, id, so)) =>
                 LET saved == Written(repo, NewOp(c))
                 IN  /\ saved[id].sortOrder = InBand(so)
                     /\ saved[id].sortOrder \in 1..24
                     /\ saved[id].sorter = BandMaxPlusStep(Today(c), InBand(so))
                     /\ \A f \in DOMAIN repo[id] \ {"sortOrder", "sorter", "updatedAtMs"} :
                            saved[id][f] = repo[id][f]
                     /\ DOMAIN saved[id] = DOMAIN repo[id]
                     /\ \A other \in DOMAIN repo \ {id} : saved[other] = repo[other]
                     /\ DOMAIN saved = DOMAIN repo]_vars

\* of the bands [1,1,3] the second task was moved to band 3, below the task
\* already there; the other two tasks are as they were
C19_Witness ==
    /\ inflight["c1"] = << >>
    /\ Len(repo) = 3
    /\ repo[2].sortOrder = 3
    /\ repo[2].sorter = 2000
    /\ repo[1] = SeedDoc(RefA, 1, 1000, FALSE, 1)
    /\ repo[3] = SeedDoc(RefA, 3, 1000, FALSE, 3)

\* C20: no step of any lifecycle or ordering action (add, advance, complete,
\* remove, bulk throw, restore, change band, reorder) deletes a task or
\* lowers its doneCount or its throwCount.
C20_CountersMonotone ==
    [][\A id \in DOMAIN repo :
          /\ id \in DOMAIN repo'
          /\ repo'[id].doneCount >= repo[id].doneCount
          /\ repo'[id].throwCount >= repo[id].throwCount]_vars

\* the task completed twice and thrown 5 times was advanced by one day: it is
\* due on RefB, thrown 6 times, and still completed twice
C20_Witness ==
    /\ inflight["c1"] = << >>
    /\ Len(repo) = 3
    /\ repo[1].dueDate = RefB
    /\ repo[1].throwCount = 6
    /\ repo[1].doneCount = 2
    /\ repo[1].lastDoneDate = RefB

\* C21: no step removes a task id from the repository or from what a read
\* returns, and a Remove (plain or bulk) leaves each task it is applied to
\* retrievable, with removed = true, in the Removed list.
C21_NeverDeleted ==
    [][/\ Len(repo') >= Len(repo)
       /\ IdsOf(listTasks(repo, Owner)) \subseteq IdsOf(listTasks(repo', Owner))
       /\ \A c \in Clients :
             (Started(c, "onRemove") \/ (Started(c, "onThrow") /\ onThrow(c, "REMOVE"))) =>
                 LET saved == Written(repo, NewOp(c))
                 IN  /\ RowIds(NewOp(c)) # {}
                     /\ Len(saved) = Len(repo)
                     /\ \A id \in RowIds(NewOp(c)) :
                            /\ id \in IdsOf(listTasks(saved, Owner))
                            /\ id \in IdsOf(removedTasks(listTasks(saved, Owner)))
                            /\ Read(saved, id).removed]_vars

\* the second of three tasks was removed and the list fetched again: the
\* repository still holds three records and the Removed tab shows the task
C21_Witness ==
    /\ inflight["c1"] = << >>
    /\ Len(repo) = 3
    /\ repo[2].removed
    /\ ~repo[1].removed
    /\ ~repo[3].removed
    /\ 2 \in IdsOf(Removed("c1"))

\* a string that is empty once trimmed
IsBlank(s) == \A k \in 1..Len(s) : s[k] = Space

\* what createTask may be given as owner, title and due date
CreateInputs == {EmptyStr, << Space, Space >>, << Space, 97, Space >>}

\* C22: createTask rejects an owner, a title or a due date that is empty once
\* trimmed, and nothing else; an Add that is rejected changes neither the
\* repository nor what is in flight and shows a message; every record an Add
\* writes has an owner, a title and a due date.
C22_RejectedAddWritesNothing ==
    [][/\ \A u, t, d \in CreateInputs :
             createTaskThrows(u, t, d) <=> (IsBlank(u) \/ IsBlank(t) \/ IsBlank(d))
       /\ \A c \in Clients : \A t \in Titles : \A so \in BandChoices :
             (onAdd(c, t, so) /\ ~IsBlank(t) /\ IsBlank(baseDate[c])) =>
                 /\ repo' = repo
                 /\ inflight' = inflight
                 /\ msg'[c] = "error"
                 /\ ~busy'[c]
       /\ \A c \in Clients :
             Started(c, "onAdd") =>
                 /\ ~IsBlank(NewOp(c).doc.uid)
                 /\ ~IsBlank(NewOp(c).doc.title)
                 /\ ~IsBlank(NewOp(c).doc.dueDate)
       /\ \A id \in DOMAIN repo' \ DOMAIN repo :
             /\ ~IsBlank(repo'[id].uid)
             /\ ~IsBlank(repo'[id].title)
             /\ ~IsBlank(repo'[id].dueDate)]_vars

\* with the date input cleared an Add was rejected: a message is shown, no
\* call reached the repository, which holds the three records it held
C22_Witness ==
    /\ baseDate["c1"] = EmptyStr
    /\ msg["c1"] = "error"
    /\ ~busy["c1"]
    /\ opsLeft = 0
    /\ inflight["c1"] = << >>
    /\ clock = 3
    /\ Len(repo) = 3

\* C23: an Add that reaches the repository creates exactly one record, with
\* dueDate = R, removed = false, doneCount = 0, throwCount = 0, sortOrder =
\* the band chosen in the selector and sorter = the largest sorter of that
\* band in Today plus the step; the other records are untouched and, fetched
\* again, the new task is in Today for R.
C23_AddCreatesOneTask ==
    [][\A c \in Clients : \A t \in Titles : \A so \in BandChoices :
          (Started(c, "onAdd") /\ onAdd(c, t, so)) =>
              LET saved == Written(repo, NewOp(c))
                  id    == Len(repo) + 1
              IN  /\ Len(saved) = Len(repo) + 1
                  /\ \A old \in DOMAIN repo : saved[old] = repo[old]
                  /\ saved[id].dueDate = baseDate[c]
                  /\ saved[id].removed = FALSE
                  /\ saved[id].doneCount = 0
                  /\ saved[id].throwCount = 0
                  /\ saved[id].sortOrder = so
                  /\ saved[id].sorter = BandMaxPlusStep(Today(c), so)
                  /\ saved[id].uid = Owner
                  /\ id \in IdsOf(todayTasks(listTasks(saved, Owner), baseDate[c]))
                  /\ id \notin IdsOf(futureTasks(listTasks(saved, Owner), baseDate[c]))
                  /\ id \notin IdsOf(removedTasks(listTasks(saved, Owner)))]_vars

\* on RefB a task was added to band 3, which held tasks with sorters 1000 and
\* 2000: it has sorter 3000, is due on RefB and is shown in Today
C23_Witness ==
    /\ inflight["c1"] = << >>
    /\ baseDate["c1"] = RefB
    /\ Len(repo) = 4
    /\ repo[4].dueDate = RefB
    /\ repo[4].sortOrder = 3
    /\ repo[4].sorter = 3000
    /\ ~repo[4].removed
    /\ repo[4].doneCount = 0
    /\ repo[4].throwCount = 0
    /\ 4 \in IdsOf(Today("c1"))

\* C24: a read gives every stored record that lacks sortOrder the sortOrder
\* 24, whatever its other fields are.
C24_MissingBandIs24 ==
    LET list == listTasks(repo, Owner)
    IN  \A k \in 1..Len(list) :
            "sortOrder" \notin DOMAIN repo[list[k].id] => list[k].sortOrder = 24

\* the reference dates the date input can hold
ValidRefs == BaseDates \ {EmptyStr}

\* the record with this id is stored with a due date
HasDue(id) == "dueDate" \in DOMAIN repo[id] /\ ~IsBlank(repo[id].dueDate)

\* C25: a read gives a non-removed record that lacks dueDate the far-future
\* date 9999-12-31; for every valid reference date the record is in Future
\* and not in Today, and comes after every Future task that has a due date.
C25_NoDueDateSinksInFuture ==
    LET list == listTasks(repo, Owner)
    IN  \A k \in 1..Len(list) :
            (~HasDue(list[k].id) /\ ~list[k].removed) =>
                /\ list[k].dueDate = SentinelDue
                /\ \A R \in ValidRefs :
                       LET fut == futureTasks(list, R)
                       IN  /\ list[k].id \in IdsOf(fut)
                           /\ list[k].id \notin IdsOf(todayTasks(list, R))
                           /\ \A j \in 1..Len(fut) :
                                  HasDue(fut[j].id) => j < IndexOf(fut, list[k].id)

\* bands and sorters as they may be found stored or be handed to the core
AnyBands == (MinSortOrder - 2)..(MaxSortOrder + 2)
AnySorters == {0, 7, 1000, 30000}

\* the sortOrder values an invocation writes
BandsWritten(op) ==
    IF op.kind = "create" THEN {op.doc.sortOrder}
    ELSE {op.rows[k].set.sortOrder :
             k \in {j \in 1..Len(op.rows) : "sortOrder" \in DOMAIN op.rows[j].set}}

\* C26: every sortOrder the core writes (Add, changeBand, reorder) and every
\* sortOrder a read returns is an integer in [1,24]; a band out of range or
\* missing is clamped into the range: the page and the repository do so on
\* every number, and a read on every stored value.
C26_BandInRange ==
    /\ \A v \in AnyBands : clampSortOrder(v) \in 1..24 /\ storeClamp(v) \in 1..24
    /\ \A v \in AnyBands : \A s \in AnySorters :
          /\ normalize(1, [sortOrder |-> v, sorter |-> s, createdAtMs |-> 5]).sortOrder \in 1..24
          /\ normalize(1, [sorter |-> s, createdAtMs |-> 5]).sortOrder \in 1..24
    /\ [](\A k \in 1..Len(listTasks(repo, Owner)) : listTasks(repo, Owner)[k].sortOrder \in 1..24)
    /\ [][\A c \in Clients :
             Len(inflight'[c]) > Len(inflight[c]) =>
                 /\ BandsWritten(NewOp(c)) \subseteq 1..24
                 /\ \A id \in DOMAIN Written(repo, NewOp(c)) :
                        Written(repo, NewOp(c))[id].sortOrder \in 1..24]_vars

\* of the bands [1,1,3] the first task was moved to band 24 and the list
\* fetched again: both the record and the snapshot hold band 24
C26_Witness ==
    /\ inflight["c1"] = << >>
    /\ Len(repo) = 3
    /\ repo[1].sortOrder = 24
    /\ repo[2].sortOrder = 1
    /\ repo[3].sortOrder = 3
    /\ Len(allTasks["c1"]) = 3
    /\ allTasks["c1"][1].sortOrder = 24

\* the write of the i-th invocation in flight of client c succeeds without an
\* error message, and every record it names that exists is updated
CommitsIgnoringAbsent(c, i) ==
    /\ Commit(c, i)
    /\ msg'[c] # "error"
    /\ \A id \in RowIds(inflight[c][i]) \cap DOMAIN repo :
          repo'[id] = applyAll(repo[id],
                               SelectSeq(inflight[c][i].rows, LAMBDA u : u.id = id),
                               inflight[c][i].now)

\* C27: an update that names an id absent from the repository is not an
\* error: its write can succeed, and then updates the other ids it names.
C27_AbsentIdIgnored ==
    \A c \in Clients : \A i \in 1..Len(inflight[c]) :
        (/\ inflight[c][i].phase = "write"
         /\ inflight[c][i].kind = "batch"
         /\ ~(RowIds(inflight[c][i]) \subseteq DOMAIN repo))
            => ENABLED CommitsIgnoringAbsent(c, i)

\* C28: every started mutating operation ends: a busy flag that is set is
\* eventually cleared and what is in flight eventually settles, whether the
\* repository call succeeds or fails; a call that fails shows a message.
C28_BusyEventuallyCleared ==
    /\ \A c \in Clients : busy[c] ~> ~busy[c]
    /\ \A c \in Clients : (inflight[c] # << >>) ~> (inflight[c] = << >>)
    /\ [][\A c \in Clients : \A i \in Slots :
             (CommitFail(c, i) \/ (RefreshFail(c, i) /\ inflight[c][i].phase = "refresh"))
                 => msg'[c] = "error"]_vars

\* the write of a bulk throw was rejected: the handler has ended, the busy
\* flag is cleared, the error is shown and the selection is still there
C28_Witness ==
    /\ inflight["c1"] = << >>
    /\ ~busy["c1"]
    /\ msg["c1"] = "error"
    /\ clock = Len(repo) + 1
    /\ Len(selectedIds(selected["c1"])) = 1
    /\ opsLeft = MaxOps

\* (sortOrder, sorter, createdAt) of a is not after that of b
KeyLE(a, b) ==
    \/ a.sortOrder < b.sortOrder
    \/ a.sortOrder = b.sortOrder /\ a.sorter < b.sorter
    \/ a.sortOrder = b.sortOrder /\ a.sorter = b.sorter /\ a.createdAtMs <= b.createdAtMs

\* C29: for every snapshot, also one where tasks share (sortOrder, sorter),
\* Today is produced: it holds every task of the snapshot that is not removed
\* and is due on or before R, each once, ascending by sortOrder, then sorter,
\* then createdAt.
C29_TodayDespiteDuplicates ==
    \A c \in Clients :
        LET today == Today(c)
            due   == {k \in 1..Len(allTasks[c]) :
                         ~allTasks[c][k].removed /\ StrLE(allTasks[c][k].dueDate, baseDate[c])}
        IN  /\ Len(today) = Cardinality(due)
            /\ \A k \in due : \E i \in 1..Len(today) : today[i] = allTasks[c][k]
            /\ \A i, j \in 1..Len(today) : i < j => KeyLE(today[i], today[j])

\* on RefB the snapshot holds two tasks with band 1 and sorter 1000 and a
\* third task: Today lists the three, the two with equal keys by creation
C29_Witness ==
    /\ baseDate["c1"] = RefB
    /\ Len(Today("c1")) = 3
    /\ Today("c1")[1].sortOrder = Today("c1")[2].sortOrder
    /\ Today("c1")[1].sorter = Today("c1")[2].sorter
    /\ Today("c1")[1].createdAtMs < Today("c1")[2].createdAtMs
    /\ Today("c1")[3].sortOrder = 24

\* the write of the i-th invocation in flight of client c succeeds and stores
\* the sorter of each of its rows as computed, leaving every other record
DragOverwrites(c, i) ==
    /\ Commit(c, i)
    /\ \A k \in 1..Len(inflight[c][i].rows) :
          repo'[inflight[c][i].rows[k].id].sorter = inflight[c][i].rows[k].set.sorter
    /\ \A id \in DOMAIN repo \ RowIds(inflight[c][i]) : repo'[id] = repo[id]

\* C30: reorders of two clients are not coordinated: whatever the other client
\* has written since the snapshot was taken, the write of a reorder can
\* succeed, storing the sorters computed from the client's own snapshot of
\* Today and leaving the tasks outside that snapshot as they are; so two
\* reorders can leave two Today tasks with the same sorter.
C30_ReordersUncoordinated ==
    \A c \in Clients : \A i \in 1..Len(inflight[c]) :
        (inflight[c][i].h = "onDragEnd" /\ inflight[c][i].phase = "write")
            => ENABLED DragOverwrites(c, i)

\* the second client reordered the three tasks it shows, then the first the
\* two it shows: tasks 2 and 3, both in the second client's Today, have band
\* 3 and sorter 1000, written by different reorders
C30_Witness ==
    /\ \A c \in Clients : inflight[c] = << >>
    /\ opsLeft = 0
    /\ repo[2].sorter = repo[3].sorter
    /\ repo[2].sortOrder = repo[3].sortOrder
    /\ repo[2].updatedAtMs > repo[3].updatedAtMs
    /\ repo[3].updatedAtMs > repo[3].createdAtMs
    /\ {2, 3} \subseteq IdsOf(todayTasks(listTasks(repo, Owner), baseDate["c2"]))

\* C31: a task that is not removed and is due on R is in Today and not in
\* Future; Today is exactly the tasks of the snapshot that are not removed
\* and due on or before R, Future exactly those not removed and due after R.
C31_InclusiveBoundary ==
    \A c \in Clients :
        LET all   == allTasks[c]
            R     == baseDate[c]
            onR   == {all[k].id : k \in {j \in 1..Len(all) :
                          ~all[j].removed /\ all[j].dueDate = R}}
            upto  == {all[k].id : k \in {j \in 1..Len(all) :
                          ~all[j].removed /\ StrLE(all[j].dueDate, R)}}
            after == {all[k].id : k \in {j \in 1..Len(all) :
                          ~all[j].removed /\ StrGT(all[j].dueDate, R)}}
        IN  /\ onR \subseteq IdsOf(Today(c))
            /\ onR \cap IdsOf(Future(c)) = {}
            /\ IdsOf(Today(c)) = upto
            /\ IdsOf(Future(c)) = after
            /\ Len(Today(c)) = Cardinality(upto)
            /\ Len(Future(c)) = Cardinality(after)

\* with RefB as reference date, the task due on RefB is shown in Today
\* beside the task due the day before, and Future is empty
C31_Witness ==
    /\ baseDate["c1"] = RefB
    /\ Len(Today("c1")) = 2
    /\ \E k \in 1..2 : Today("c1")[k].dueDate = RefB
    /\ \E k \in 1..2 : Today("c1")[k].dueDate = RefA
    /\ Len(Future("c1")) = 0
    /\ Len(Removed("c1")) = 1

\* C32: a RestoreFromFuture or RestoreFromRemoved that succeeds leaves the
\* task, once fetched again, with dueDate = R and removed = false, in Today
\* for R, and with the doneCount and throwCount it had.
C32_RestoreIntoToday ==
    [][\A c \in Clients :
          (Started(c, "onBackFromFuture") \/ Started(c, "onBackFromRemoved")) =>
              LET id    == NewOp(c).rows[1].id
                  saved == Written(repo, NewOp(c))
              IN  /\ Read(saved, id).dueDate = baseDate[c]
                  /\ ~Read(saved, id).removed
                  /\ id \in IdsOf(todayTasks(listTasks(saved, Owner), baseDate[c]))
                  /\ Read(saved, id).doneCount = Read(repo, id).doneCount
                  /\ Read(saved, id).throwCount = Read(repo, id).throwCount]_vars

\* C33: addDays(addDays(d, n), -n) = d for every valid date d and every
\* integer n: adding n days yields a date from which adding -n days yields d.
C33_AddDaysRoundTrip ==
    [][\A n \in Shifts :
          ApplyAddDays("c1", n) =>
              /\ ~addDaysThrows(baseDate'["c1"])
              /\ addDaysISO(baseDate'["c1"], 0 - n) = baseDate["c1"]]_vars

\* strings that do not match the YYYY-MM-DD digit pattern: "", "10000-01-01",
\* "2024-2-28", "2024/02/28", "999-01-01"
Malformed ==
    { EmptyStr, RefOver,
      << 50, 48, 50, 52, Hyphen, 50, Hyphen, 50, 56 >>,
      << 50, 48, 50, 52, 47, 48, 50, 47, 50, 56 >>,
      << 57, 57, 57, Hyphen, 48, 49, Hyphen, 48, 49 >> }

\* C34: addDays fails on a base date that does not match the YYYY-MM-DD digit
\* pattern, and on no other; an AdvanceOneDay or a BulkThrow issued with such
\* a reference date starts no repository write, leaves the repository as it
\* is and shows a message.
C34_MalformedDateWritesNothing ==
    /\ \A d \in Malformed : addDaysThrows(d)
    /\ \A d \in DateSamples : ~addDaysThrows(d)
    /\ [][\A c \in Clients :
             (/\ ~isISODate(baseDate[c])
              /\ \/ \E id \in DOMAIN repo : onTomorrow(c, id)
                 \/ \E a \in ThrowActions : onThrow(c, a))
                 => /\ repo' = repo
                    /\ inflight' = inflight
                    /\ msg'[c] = "error"]_vars

\* the ids the chunk an invocation sends next writes to
NextPartIds(op) ==
    LET parts == chunk(op.rows, BatchLimit)
    IN  IF op.kind = "create" \/ Len(parts) = 0 THEN {}
        ELSE {parts[op.done + 1][k].id : k \in 1..Len(parts[op.done + 1])}

\* C35: an invocation takes the time of its call (a time later than every
\* earlier one); every record a committed chunk writes to gets updatedAt = that
\* time, a created record gets createdAt = updatedAt = that time, a record no
\* chunk wrote to is untouched, and no step changes the owner, the title or
\* createdAt of a stored record or deletes one.
C35_WritesStampUpdatedAt ==
    [][/\ \A c \in Clients :
             Len(inflight'[c]) = Len(inflight[c]) + 1 =>
                 NewOp(c).now = clock' /\ clock' > clock
       /\ \A id \in DOMAIN repo :
             /\ id \in DOMAIN repo'
             /\ repo'[id].uid = repo[id].uid
             /\ repo'[id].title = repo[id].title
             /\ repo'[id].createdAtMs = repo[id].createdAtMs
             /\ repo'[id] # repo[id] =>
                   \E c \in Clients, i \in Slots :
                       /\ Commit(c, i)
                       /\ id \in NextPartIds(inflight[c][i])
       /\ \A c \in Clients, i \in Slots :
             Commit(c, i) =>
                 LET op == inflight[c][i]
                 IN  /\ \A id \in NextPartIds(op) : repo'[id].updatedAtMs = op.now
                     /\ op.kind = "create" =>
                           /\ Len(repo') = Len(repo) + 1
                           /\ repo'[Len(repo')].updatedAtMs = op.now
                           /\ repo'[Len(repo')].createdAtMs = op.now]_vars

\* a throw has been committed and re-fetched: a stored task has a throw count
\* and is stamped with the time of that call, later than its creation
C35_Witness ==
    \E id \in DOMAIN repo :
        /\ repo[id].throwCount > 0
        /\ repo[id].updatedAtMs > repo[id].createdAtMs
        /\ repo[id].updatedAtMs = clock
        /\ inflight["c1"] = << >>

\* the ids of a list in its order
IdOrder(list) == [k \in 1..Len(list) |-> list[k].id]

\* C36: after a drag of a onto o, Today sorted anew by (sortOrder, sorter,
\* createdAt) from the rewritten keys is exactly the dragged order: a at the
\* position o had, every other task in its previous relative order; in the
\* snapshot as soon as the drop is handled and, the snapshot being current, in
\* the repository as re-fetched once the write is committed.
C36_ReorderMatchesSort ==
    [][\A c \in Clients :
          Started(c, "onDragEnd") => \A a, o \in DOMAIN repo : onDragEnd(c, a, o) =>
              LET old   == Today(c)
                  order == NewOrder(old, a, IndexOf(old, o))
                  new   == todayTasks(allTasks'[c], baseDate[c])
                  saved == todayTasks(listTasks(Written(repo, NewOp(c)), Owner), baseDate[c])
              IN  /\ \A i, j \in 1..Len(old) : i < j => KeyLE(old[i], old[j])
                  /\ IdOrder(new) = order
                  /\ order[IndexOf(old, o)] = a
                  /\ allTasks[c] = listTasks(repo, Owner) => IdOrder(saved) = order]_vars

\* Today read as tasks 2, 3, 1 with bands [3, 24, 24]: task 1 was dragged to
\* the head, has band 3 now and is read first, before task 2 of the same band
C36_Witness ==
    /\ inflight["c1"] = << >>
    /\ Len(repo) = 3
    /\ IdOrder(Today("c1")) = << 1, 2, 3 >>
    /\ IdOrder(todayTasks(listTasks(repo, Owner), baseDate["c1"])) = << 1, 2, 3 >>
    /\ repo[1].sortOrder = 3 /\ repo[1].sorter = SorterStep
    /\ repo[2].sortOrder = 3 /\ repo[2].sorter = 2 * SorterStep
    /\ repo[3].sortOrder = 24 /\ repo[3].sorter = 3 * SorterStep
    /\ repo[1].doneCount = 2

\* C37: in every state the ticked ids are ids of Today of the snapshot for the
\* reference date; a bulk throw is started only with a non-empty selection and
\* writes exactly to the ticked tasks, all of them in that Today; with an
\* empty selection a press of the throw button changes nothing.
C37_SelectionWithinToday ==
    /\ [](\A c \in Clients : Ticked(c) \subseteq IdsOf(Today(c)))
    /\ [][\A c \in Clients :
             /\ Started(c, "onThrow") =>
                   /\ Ticked(c) # {}
                   /\ RowIds(NewOp(c)) = Ticked(c)
                   /\ RowIds(NewOp(c)) \subseteq IdsOf(Today(c))
             /\ Ticked(c) = {} => \A a \in ThrowActions : ~onThrow(c, a)]_vars

\* tasks 1 and 2 were ticked and task 1 sent to tomorrow by its button: after
\* the re-fetch task 1 is in Future and only task 2 is still ticked
C37_Witness ==
    /\ inflight["c1"] = << >>
    /\ uiLeft = MaxUi - 2
    /\ opsLeft = 0
    /\ Ticked("c1") = {2}
    /\ 1 \in IdsOf(Future("c1"))
    /\ Len(repo) = 3
    /\ repo[1].throwCount = 1
    /\ repo[1].dueDate = addDaysISO(baseDate["c1"], 1)

\* the distinct non-empty ids of a list
Distinct(ids) == {ids[k] : k \in 1..Len(ids)} \ {0}

\* the step raised the counter of every task of D by exactly 1 and left every
\* other record as it was
RaisedOnce(D, counter) ==
    /\ \A id \in D : repo'[id][counter] = repo[id][counter] + 1
    /\ \A id \in DOMAIN repo \ D : repo'[id] = repo[id]
    /\ DOMAIN repo' = DOMAIN repo

\* C38: a bulk function called with an id list, repeated and empty ids
\* allowed, builds one row per distinct non-empty id; the call raises
\* throwCount (and completeTasks doneCount) of each of these tasks by exactly
\* 1, whatever the number of times the id is in the list, and leaves every
\* other record as it was.
C38_DistinctIdsWrittenOnce ==
    /\ \A ids \in IdLists :
          /\ Len(completeTasksRows(ids, RefA, 1, 1)) = Cardinality(Distinct(ids))
          /\ Len(rescheduleTasksRows(ids, RefB, 1)) = Cardinality(Distinct(ids))
          /\ Len(rescheduleTasksIndividuallyRows(ItemsOf(ids), 1)) = Cardinality(Distinct(ids))
          /\ Len(removeTasksRows(ids, TRUE, 1)) = Cardinality(Distinct(ids))
    /\ [][\A ids \in IdLists :
             /\ completeTasks(ids) =>
                   /\ RaisedOnce(Distinct(ids), "throwCount")
                   /\ RaisedOnce(Distinct(ids), "doneCount")
             /\ rescheduleTasks(ids) => RaisedOnce(Distinct(ids), "throwCount")
             /\ rescheduleTasksIndividually(ids) => RaisedOnce(Distinct(ids), "throwCount")
             /\ removeTasks(ids) => RaisedOnce(Distinct(ids), "throwCount")]_vars

\* two calls were made, the second one a completion: task 1 was in both lists,
\* task 2 in one, task 3 in none
C38_Witness ==
    /\ opsLeft = 0
    /\ repo[1].throwCount = 2 /\ repo[1].doneCount = 1
    /\ repo[1].lastDoneDate = RefA
    /\ repo[1].dueDate = RefB
    /\ repo[2].throwCount = 1 /\ repo[2].doneCount = 0
    /\ repo[3].updatedAtMs = repo[3].createdAtMs

\* what the rows of an invocation add to a counter of task id
IncOf(op, id, counter) ==
    LET ks == {k \in 1..Len(op.rows) : op.rows[k].id = id}
    IN  IF ks = {} THEN 0 ELSE Field(op.rows[CHOOSE k \in ks : TRUE].inc, counter, 0)

\* each client started one handler from the snapshot they fetched together,
\* no other handler was started, and both writes are committed
BothCommitted ==
    /\ opsLeft = MaxOps - 1
    /\ \A c \in Clients : Len(inflight[c]) = 1 /\ inflight[c][1].phase = "refresh"

\* C39: a committed write adds its increments to the counters as stored at the
\* commit, not as read in the snapshot, and stores its other fields as given,
\* leaving the fields it does not name; so when two clients throw or complete
\* from the same snapshot, in either order of the commits each counter ends at
\* its value plus both increments, and dueDate, removed and lastDoneDate hold
\* what the write committed last gave them.
C39_IncrementsAccumulate ==
    /\ [](BothCommitted =>
             \A id \in DOMAIN repo : \A f \in {"throwCount", "doneCount"} :
                 repo[id][f] = SharedRepo[id][f] + IncOf(inflight["c1"][1], id, f)
                                                 + IncOf(inflight["c2"][1], id, f))
    /\ [][\A c \in Clients, i \in Slots :
             Commit(c, i) =>
                 \A k \in 1..Len(inflight[c][i].rows) :
                     LET u == inflight[c][i].rows[k]
                     IN  /\ \A f \in DOMAIN u.inc : repo'[u.id][f] = repo[u.id][f] + u.inc[f]
                         /\ \A f \in DOMAIN u.set : repo'[u.id][f] = u.set[f]
                         /\ \A f \in {"dueDate", "removed", "lastDoneDate", "throwCount",
                                      "doneCount"} \ (DOMAIN u.inc \cup DOMAIN u.set) :
                                repo'[u.id][f] = repo[u.id][f]]_vars

\* the first client completed task 1 by a bulk throw and the second sent it to
\* its tomorrow, both from the snapshot fetched at the start: throwCount is 2,
\* doneCount 1, and each field holds what its only writer gave it
C39_Witness ==
    /\ BothCommitted
    /\ inflight["c1"][1].h = "onThrow"
    /\ inflight["c2"][1].h = "onTomorrow"
    /\ TaskOf(allTasks["c1"], 1).throwCount = 0
    /\ TaskOf(allTasks["c2"], 1).throwCount = 0
    /\ repo[1].throwCount = 2
    /\ repo[1].doneCount = 1
    /\ repo[1].lastDoneDate = RefA
    /\ repo[1].dueDate = addDaysISO(RefB, 1)

\* the snapshot holds the tasks the store would return, each with the
\* sortOrder and the sorter the store would return
SameKeys(snapshot, store) ==
    LET list == listTasks(store, Owner)
    IN  /\ Len(snapshot) = Len(list)
        /\ \A k \in 1..Len(snapshot) :
              /\ snapshot[k].id = list[k].id
              /\ snapshot[k].sortOrder = list[k].sortOrder
              /\ snapshot[k].sorter = list[k].sorter

\* the i-th invocation in flight of client c is a drag and this step commits
\* the last chunk of its write
DragCommitted(c, i) ==
    /\ Commit(c, i)
    /\ inflight[c][i].h = "onDragEnd"
    /\ inflight[c][i].done + 1 = Len(chunk(inflight[c][i].rows, BatchLimit))

\* C40: a drag rewrites the snapshot when the drop is handled: if the snapshot
\* was current, it then has for every task the sortOrder and sorter the
\* repository has once the write is committed.  The commit of the write ends
\* the handler with no re-fetch, the snapshot left as it is; when the drag is
\* the only handler started, snapshot and repository then agree on the keys of
\* every task.  A rejected write leads to a re-fetch, which replaces the
\* snapshot by the list the repository returns.
C40_DragIsOptimistic ==
    [][\A c \in Clients :
          /\ (Started(c, "onDragEnd") /\ allTasks[c] = listTasks(repo, Owner)) =>
                SameKeys(allTasks'[c], Written(repo, NewOp(c)))
          /\ \A i \in Slots :
                /\ DragCommitted(c, i) =>
                      /\ allTasks'[c] = allTasks[c]
                      /\ Len(inflight'[c]) = Len(inflight[c]) - 1
                      /\ \A j \in 1..Len(inflight'[c]) : inflight'[c][j].now # inflight[c][i].now
                      /\ opsLeft = MaxOps - 1 => SameKeys(allTasks'[c], repo')
                /\ (CommitFail(c, i) /\ inflight[c][i].h = "onDragEnd") =>
                      /\ allTasks'[c] = allTasks[c]
                      /\ inflight'[c][i].phase = "refreshAfterError"
                /\ (Refresh(c, i) /\ inflight[c][i].phase = "refreshAfterError") =>
                      allTasks'[c] = listTasks(repo, Owner)]_vars

\* a drag has run to its end: the repository has the new sorter of a task and
\* the time of the write, the snapshot the new sorter and the old time
C40_Witness ==
    /\ inflight["c1"] = << >>
    /\ opsLeft = MaxOps - 1
    /\ msg["c1"] = "ok"
    /\ SameKeys(allTasks["c1"], repo)
    /\ \E id \in DOMAIN repo :
          /\ repo[id].updatedAtMs = clock
          /\ repo[id].updatedAtMs > repo[id].createdAtMs
          /\ repo[id].sorter = 3 * SorterStep
          /\ TaskOf(allTasks["c1"], id).sorter = 3 * SorterStep
          /\ TaskOf(allTasks["c1"], id).updatedAtMs = repo[id].createdAtMs

====
